---- MODULE Spec2Model ----
(***************************************************************************)
(* Model of the remote-sensing core of the backend:                        *)
(*   SpectralAnalyzer  (infrastructure/ai/spectral.rs)                     *)
(*   AnalyzeService::detect_anomaly (application/analyze_service.rs)       *)
(*                                                                         *)
(* f32 values are modelled as exact rationals [n, d] in lowest terms with  *)
(* d > 0; the IEEE results of a division by zero are kept as the values    *)
(* with d = 0: NaN = 0/0, +inf = 1/0, -inf = -1/0.  Rounding of f32 is not *)
(* modelled.                                                               *)
(***************************************************************************)
EXTENDS Integers, Sequences, FiniteSets, TLC

VARIABLES
    analyzer,   \* the SpectralAnalyzer instance: its three fields
    op,         \* the operation whose call is in progress, "idle" if none
    args,       \* the arguments of that call
    ret,        \* the value it returned
    tasks,      \* the concurrent calls in progress: each one's position and locals
    shared      \* the state the concurrent calls share (a cache, a table)

vars == <<analyzer, op, args, ret, tasks, shared>>

(***************************************************************************)
(* Bounds of the model.                                                    *)
(***************************************************************************)
\* the largest number of pixels (rows * cols) of a band raster
MaxCells == 2
\* the longest history passed to detect_peak_valley
MaxHist == 2
\* the longest series passed to analyze_salinity_trend
MaxSeries == 4
\* the longest list of historical SpectralIndices passed to detect_anomaly
MaxLogs == 2

(***************************************************************************)
(* f32 arithmetic.                                                         *)
(***************************************************************************)
Abs(x) == IF x < 0 THEN -x ELSE x

Sign(x) == IF x < 0 THEN -1 ELSE IF x > 0 THEN 1 ELSE 0

RECURSIVE Gcd(_, _)
Gcd(a, b) == IF b = 0 THEN a ELSE Gcd(b, a % b)

\* the f32 value n/d
Q(n, d) ==
    IF d = 0 THEN [n |-> Sign(n), d |-> 0]
    ELSE LET g == Gcd(Abs(n), Abs(d))
         IN  [n |-> Sign(d) * (n \div g), d |-> Abs(d) \div g]

Zero == Q(0, 1)
One == Q(1, 1)
NaN == Q(0, 0)
PosInf == Q(1, 0)
NegInf == Q(-1, 0)

IsNaN(x) == x.d = 0 /\ x.n = 0
IsFinite(x) == x.d # 0

FNeg(x) == [n |-> -x.n, d |-> x.d]

FAbs(x) == [n |-> Abs(x.n), d |-> x.d]

FAdd(a, b) ==
    IF IsNaN(a) \/ IsNaN(b) THEN NaN
    ELSE IF a.d = 0 /\ b.d = 0 THEN (IF a.n = b.n THEN a ELSE NaN)
    ELSE IF a.d = 0 THEN a
    ELSE IF b.d = 0 THEN b
    ELSE LET g == Gcd(a.d, b.d)
         IN  Q(a.n * (b.d \div g) + b.n * (a.d \div g), (a.d \div g) * b.d)

FSub(a, b) == FAdd(a, FNeg(b))

FMul(a, b) ==
    IF IsNaN(a) \/ IsNaN(b) THEN NaN
    ELSE IF a.d = 0 \/ b.d = 0 THEN Q(Sign(a.n) * Sign(b.n), 0)
    ELSE LET g1 == Gcd(Abs(a.n), b.d)
             g2 == Gcd(Abs(b.n), a.d)
         IN  Q((a.n \div g1) * (b.n \div g2), (a.d \div g2) * (b.d \div g1))

\* 1/x: 1/0 is +inf, 1/inf is 0
FInv(x) ==
    IF IsNaN(x) THEN NaN
    ELSE IF x.d = 0 THEN Zero
    ELSE IF x.n = 0 THEN PosInf
    ELSE [n |-> Sign(x.n) * x.d, d |-> Abs(x.n)]

\* a / b as IEEE 754 divides: 0/0 = NaN, x/0 = +-inf, inf/inf = NaN
FDiv(a, b) ==
    IF a.d = 0 /\ b.d = 0 THEN NaN
    ELSE FMul(a, FInv(b))

\* a < b; every comparison with NaN is false
FLt(a, b) ==
    IF IsNaN(a) \/ IsNaN(b) THEN FALSE
    ELSE IF a.d = 0 \/ b.d = 0
         THEN (IF a.d = 0 THEN a.n ELSE 0) < (IF b.d = 0 THEN b.n ELSE 0)
    ELSE LET g == Gcd(a.d, b.d)
         IN  a.n * (b.d \div g) < b.n * (a.d \div g)

FGt(a, b) == FLt(b, a)

FLe(a, b) == ~IsNaN(a) /\ ~IsNaN(b) /\ ~FLt(b, a)

\* usize as f32
FromInt(k) == Q(k, 1)

RECURSIVE SqrtSearch(_, _, _)
SqrtSearch(n, lo, hi) ==
    IF lo >= hi THEN lo
    ELSE LET mid == (lo + hi + 1) \div 2
         IN  IF mid * mid <= n THEN SqrtSearch(n, mid, hi)
             ELSE SqrtSearch(n, lo, mid - 1)

\* the largest r with r * r <= n
ISqrt(n) == SqrtSearch(n, 0, IF n < 46340 THEN n ELSE 46340)

\* f32::sqrt: NaN for NaN and for negative values; exact on ratios of
\* squares and to two decimals of the root otherwise
FSqrt(x) ==
    IF IsNaN(x) \/ x.n < 0 THEN NaN
    ELSE IF x.d = 0 THEN x
    ELSE IF ISqrt(x.n) * ISqrt(x.n) = x.n /\ ISqrt(x.d) * ISqrt(x.d) = x.d
         THEN Q(ISqrt(x.n), ISqrt(x.d))
    ELSE Q(ISqrt(x.n * x.d * 10000), x.d * 100)

\* iter().sum::<f32>()
RECURSIVE FSum(_)
FSum(s) == IF s = <<>> THEN Zero ELSE FAdd(FSum(SubSeq(s, 1, Len(s) - 1)), s[Len(s)])

\* the literal 1e-6 of the division guards
EPS == Q(1, 1000000)

(***************************************************************************)
(* Results.                                                                *)
(***************************************************************************)
Ok(v) == [ok |-> TRUE, value |-> v]

\* DomainError::image_processing(msg)
image_processing(msg) == [ok |-> FALSE, kind |-> "ImageProcessing", msg |-> msg]

\* the variants of DomainError
DomainErrorKinds ==
    {"NotFound", "Validation", "Database", "AiInference", "SatelliteApi",
     "GeoProcessing", "ImageProcessing", "Authentication", "Authorization",
     "Internal"}

(***************************************************************************)
(* Band rasters: Array2<f32>, row-major.                                   *)
(***************************************************************************)
Array2(rows, cols, data) == [rows |-> rows, cols |-> cols, data |-> data]

\* ArrayView2::shape()
shape(a) == <<a.rows, a.cols>>

\* Array2::len()
len(a) == Len(a.data)

\* SpectralAnalyzer::new()
new == [peak_threshold |-> Q(15, 100), valley_threshold |-> Q(-15, 100),
        smoothing_window |-> 3]

\* with_thresholds(self, peak, valley)
with_thresholds(self, peak, valley) ==
    [self EXCEPT !.peak_threshold = peak, !.valley_threshold = valley]

(***************************************************************************)
(* IndexCalculator: the four per-pixel indices.                            *)
(***************************************************************************)
\* calculate_ndvi's loop body guarding only against a sum of exactly zero
ndvi_pixel_zero_guard(nir_val, red_val) ==
    LET sum == FAdd(nir_val, red_val)
    IN  IF sum.n # 0 THEN FDiv(FSub(nir_val, red_val), sum) ELSE Zero

\* the loop body of calculate_ndvi
ndvi_pixel(nir_val, red_val) ==
    LET sum == FAdd(nir_val, red_val)
    IN  IF FGt(FAbs(sum), EPS) THEN FDiv(FSub(nir_val, red_val), sum) ELSE Zero

\* the loop body of calculate_ndsi
ndsi_pixel(swir_val, green_val) ==
    LET sum == FAdd(swir_val, green_val)
    IN  IF FGt(FAbs(sum), EPS) THEN FDiv(FSub(green_val, swir_val), sum) ELSE Zero

\* the loop body of calculate_srvi
srvi_pixel(nir_val, red_val) ==
    IF FGt(FAbs(red_val), EPS) THEN FDiv(nir_val, red_val) ELSE Zero

\* calculate_red_edge_index's loop body without the division guard
rei_pixel_unguarded(re_val, red_val) ==
    FDiv(FSub(re_val, red_val), FAdd(re_val, red_val))

\* the loop body of calculate_red_edge_index
rei_pixel(re_val, red_val) ==
    LET sum == FAdd(re_val, red_val)
    IN  IF FGt(FAbs(sum), EPS) THEN FDiv(FSub(re_val, red_val), sum) ELSE Zero

\* a shape test that compares the pixel counts only
same_len(a, b) == len(a) = len(b)

\* the shape test that opens each of the four calculations
same_shape(a, b) == shape(a) = shape(b)

calculate_ndvi(nir, red) ==
    IF ~same_shape(nir, red)
    THEN image_processing("NIR and Red bands must have same shape")
    ELSE Ok(Array2(nir.rows, nir.cols,
                   [k \in 1..len(nir) |-> ndvi_pixel(nir.data[k], red.data[k])]))

calculate_ndsi(swir, green) ==
    IF ~same_shape(swir, green)
    THEN image_processing("SWIR and Green bands must have same shape")
    ELSE Ok(Array2(swir.rows, swir.cols,
                   [k \in 1..len(swir) |-> ndsi_pixel(swir.data[k], green.data[k])]))

calculate_srvi(nir, red) ==
    IF ~same_shape(nir, red)
    THEN image_processing("NIR and Red bands must have same shape")
    ELSE Ok(Array2(nir.rows, nir.cols,
                   [k \in 1..len(nir) |-> srvi_pixel(nir.data[k], red.data[k])]))

calculate_red_edge_index(red_edge, red) ==
    IF ~same_shape(red_edge, red)
    THEN image_processing("Red Edge and Red bands must have same shape")
    ELSE Ok(Array2(red_edge.rows, red_edge.cols,
                   [k \in 1..len(red_edge) |-> rei_pixel(red_edge.data[k], red.data[k])]))

\* SpectralAnalyzer::mean
mean(array) ==
    LET sum == FSum(array.data)
        count == len(array)
    IN  IF count > 0 THEN FDiv(sum, FromInt(count)) ELSE Zero

\* SpectralAnalyzer::std
std(array) ==
    LET m == mean(array)
        variance ==
            FDiv(FSum([k \in 1..len(array) |->
                          FMul(FSub(array.data[k], m), FSub(array.data[k], m))]),
                 FromInt(len(array)))
    IN  FSqrt(variance)

\* SpectralAnalyzer::compute_mean_values
compute_mean_values(indices) ==
    [ndvi_mean |-> mean(indices.ndvi), ndvi_std |-> std(indices.ndvi),
     ndsi_mean |-> mean(indices.ndsi), ndsi_std |-> std(indices.ndsi),
     red_edge_mean |-> mean(indices.red_edge), red_edge_std |-> std(indices.red_edge)]

(***************************************************************************)
(* Inputs of the index calculations.                                       *)
(***************************************************************************)
\* the shapes rows x cols of at most MaxCells pixels
Shapes == {s \in (0..MaxCells) \X (0..MaxCells) : s[1] * s[2] <= MaxCells}

\* every raster of one of these shapes with pixels in vals
Rasters(vals) ==
    UNION {{Array2(s[1], s[2], d) : d \in [1..(s[1] * s[2]) -> vals]} : s \in Shapes}

\* band values: a negative one, zero, one below the guard (two of them sum
\* to exactly 1e-6), and full reflectance
BandValues == {Q(-1, 2), Zero, Q(1, 2000000), One}

\* pixels of computed index rasters handed to compute_mean_values
IndexValues == {Zero, One}

IndexOps == {"calculate_ndvi", "calculate_ndsi", "calculate_srvi",
             "calculate_red_edge_index"}

(***************************************************************************)
(* The index calculator as a state machine: a call, then its return.       *)
(***************************************************************************)
InitIndex ==
    /\ analyzer = new
    /\ tasks = <<>>
    /\ shared = <<>>
    /\ op = "idle"
    /\ args = <<>>
    /\ ret = <<>>

CalculateNdvi ==
    /\ op = "idle"
    /\ \E nir \in Rasters(BandValues), red \in Rasters(BandValues) :
          /\ op' = "calculate_ndvi"
          /\ args' = <<nir, red>>
          /\ ret' = calculate_ndvi(nir, red)
    /\ UNCHANGED <<analyzer, tasks, shared>>

CalculateNdsi ==
    /\ op = "idle"
    /\ \E swir \in Rasters(BandValues), green \in Rasters(BandValues) :
          /\ op' = "calculate_ndsi"
          /\ args' = <<swir, green>>
          /\ ret' = calculate_ndsi(swir, green)
    /\ UNCHANGED <<analyzer, tasks, shared>>

CalculateSrvi ==
    /\ op = "idle"
    /\ \E nir \in Rasters(BandValues), red \in Rasters(BandValues) :
          /\ op' = "calculate_srvi"
          /\ args' = <<nir, red>>
          /\ ret' = calculate_srvi(nir, red)
    /\ UNCHANGED <<analyzer, tasks, shared>>

CalculateRedEdgeIndex ==
    /\ op = "idle"
    /\ \E red_edge \in Rasters(BandValues), red \in Rasters(BandValues) :
          /\ op' = "calculate_red_edge_index"
          /\ args' = <<red_edge, red>>
          /\ ret' = calculate_red_edge_index(red_edge, red)
    /\ UNCHANGED <<analyzer, tasks, shared>>

ComputeMeanValues ==
    /\ op = "idle"
    /\ \E ndvi \in Rasters(IndexValues), ndsi \in Rasters(IndexValues),
          red_edge \in Rasters(IndexValues) :
          \E srvi \in {ndvi, red_edge} :
             LET indices == [ndvi |-> ndvi, ndsi |-> ndsi, srvi |-> srvi,
                             red_edge |-> red_edge]
             IN  /\ op' = "compute_mean_values"
                 /\ args' = <<indices>>
                 /\ ret' = compute_mean_values(indices)
    /\ UNCHANGED <<analyzer, tasks, shared>>

\* the caller takes the result; the analyzer keeps nothing of the call
Return ==
    /\ op # "idle"
    /\ op' = "idle"
    /\ args' = <<>>
    /\ ret' = <<>>
    /\ UNCHANGED <<analyzer, tasks, shared>>

NextIndex ==
    \/ CalculateNdvi
    \/ CalculateNdsi
    \/ CalculateSrvi
    \/ CalculateRedEdgeIndex
    \/ ComputeMeanValues
    \/ Return

SpecIndex == InitIndex /\ [][NextIndex]_vars

(***************************************************************************)
(* Claims about the index calculator (checked under SpecIndex).            *)
(***************************************************************************)
\* the denominator of pixel k of the index calculation in progress
Denominator(k) ==
    IF op = "calculate_srvi" THEN args[2].data[k]
    ELSE FAdd(args[1].data[k], args[2].data[k])

\* the band values of the call in progress all lie in [0, 1]
ReflectanceInputs ==
    \A i \in 1..2 : \A k \in 1..len(args[i]) :
        FLe(Zero, args[i].data[k]) /\ FLe(args[i].data[k], One)

\* C1: in each of the four index calculations, a pixel whose denominator
\* has absolute value below 1e-6 is exactly 0.0, and no output pixel is the
\* NaN or infinity of a division by zero.
C1_DivisionGuard ==
    (op \in IndexOps /\ ret.ok) =>
        \A k \in 1..len(ret.value) :
            /\ FLt(FAbs(Denominator(k)), EPS) => ret.value.data[k] = Zero
            /\ IsFinite(ret.value.data[k])

\* C1 witness: a calculation returned a raster with a pixel whose
\* denominator is non-zero and below 1e-6, and a pixel that was divided.
C1_Witness ==
    /\ op \in IndexOps
    /\ ret.ok
    /\ \E k \in 1..len(ret.value) :
          /\ Denominator(k) # Zero
          /\ FLt(FAbs(Denominator(k)), EPS)
          /\ args[1].data[k] # Zero
    /\ \E k \in 1..len(ret.value) : ret.value.data[k] # Zero

C3_NormalizedRange ==
    (op \in {"calculate_ndvi", "calculate_ndsi", "calculate_red_edge_index"}
       /\ ret.ok /\ ReflectanceInputs) =>
        \A k \in 1..len(ret.value) :
            FLe(FNeg(One), ret.value.data[k]) /\ FLe(ret.value.data[k], One)

\* C3 witness: reflectance inputs gave a raster with a guarded pixel and a
\* pixel at the edge -1 of the range.
C3_Witness ==
    /\ op \in {"calculate_ndvi", "calculate_ndsi", "calculate_red_edge_index"}
    /\ ret.ok
    /\ ReflectanceInputs
    /\ \E k \in 1..len(ret.value) : ~FGt(FAbs(Denominator(k)), EPS)
    /\ \E k \in 1..len(ret.value) : ret.value.data[k] = FNeg(One)

\* C4 as stated: compute_mean_values gives mean = 0 and std = 0 for every
\* index raster that has no pixels.
C4_EmptyRasterStatistics ==
    op = "compute_mean_values" =>
        /\ len(args[1].ndvi) = 0 => ret.ndvi_mean = Zero /\ ret.ndvi_std = Zero
        /\ len(args[1].ndsi) = 0 => ret.ndsi_mean = Zero /\ ret.ndsi_std = Zero
        /\ len(args[1].red_edge) = 0 =>
               ret.red_edge_mean = Zero /\ ret.red_edge_std = Zero

(***************************************************************************)
(* AnomalyDetector: detect_peak_valley and analyze_salinity_trend.         *)
(***************************************************************************)
\* a baseline that is 0 when there is no history
baseline_zero_default(current_value, historical_values) ==
    IF historical_values = <<>> THEN Zero
    ELSE FDiv(FSum(historical_values), FromInt(Len(historical_values)))

\* detect_peak_valley: the baseline of a current value and its history
baseline_of(current_value, historical_values) ==
    IF historical_values = <<>> THEN current_value
    ELSE FDiv(FSum(historical_values), FromInt(Len(historical_values)))

\* a relative deviation without the division guard
deviation_unguarded(current_value, baseline) ==
    FDiv(FSub(current_value, baseline), baseline)

\* detect_peak_valley: the guarded relative deviation
deviation_of(current_value, baseline) ==
    IF FGt(FAbs(baseline), EPS)
    THEN FDiv(FSub(current_value, baseline), baseline)
    ELSE Zero

\* a classification with inclusive comparisons
detection_type_inclusive(self, deviation) ==
    IF FLe(self.peak_threshold, deviation) THEN "Peak"
    ELSE IF FLe(deviation, self.valley_threshold) THEN "Valley"
    ELSE "Normal"

\* detect_peak_valley: the classification of a deviation
detection_type_of(self, deviation) ==
    IF FGt(deviation, self.peak_threshold) THEN "Peak"
    ELSE IF FLt(deviation, self.valley_threshold) THEN "Valley"
    ELSE "Normal"

\* SpectralAnalyzer::detect_peak_valley; the timestamp field, the wall
\* clock at the call, is left out
detect_peak_valley(self, current_value, historical_values, index_type) ==
    LET baseline == baseline_of(current_value, historical_values)
        deviation == deviation_of(current_value, baseline)
    IN  [index_type |-> index_type,
         value |-> current_value,
         detection_type |-> detection_type_of(self, deviation),
         baseline_value |-> baseline,
         deviation_percentage |-> FMul(deviation, FromInt(100))]

\* usize::saturating_sub
saturating_sub(a, b) == IF a < b THEN 0 ELSE a - b

\* usize::min
min(a, b) == IF a < b THEN a ELSE b

\* the loop of smooth_series: positions i of the code are 0-based
smooth_loop(self, series) ==
    LET half_window == self.smoothing_window \div 2
    IN  [k \in 1..Len(series) |->
            LET i == k - 1
                start == saturating_sub(i, half_window)
                end == min(i + half_window + 1, Len(series))
                window_sum == FSum(SubSeq(series, start + 1, end))
            IN  FDiv(window_sum, FromInt(end - start))]

\* smooth_series without its early return for short series
smooth_series_always(self, series) == smooth_loop(self, series)

\* SpectralAnalyzer::smooth_series
smooth_series(self, series) ==
    IF Len(series) < self.smoothing_window THEN series
    ELSE smooth_loop(self, series)

\* SpectralAnalyzer::calculate_slope
calculate_slope(series) ==
    IF Len(series) < 2 THEN Zero
    ELSE LET n == FromInt(Len(series))
             x_mean == FDiv(FSub(n, One), FromInt(2))
             y_mean == FDiv(FSum(series), n)
             numerator ==
                 FSum([k \in 1..Len(series) |->
                          FMul(FSub(FromInt(k - 1), x_mean), FSub(series[k], y_mean))])
             denominator ==
                 FSum([k \in 1..Len(series) |->
                          FMul(FSub(FromInt(k - 1), x_mean), FSub(FromInt(k - 1), x_mean))])
         IN  IF FGt(FAbs(denominator), EPS) THEN FDiv(numerator, denominator)
             ELSE Zero

\* analyze_salinity_trend: the slope it classifies
trend_slope(self, ndsi_series) == calculate_slope(smooth_series(self, ndsi_series))

\* the literal 0.02 of analyze_salinity_trend
SlopeThreshold == Q(2, 100)

\* a trend classification with inclusive comparisons
classify_slope_inclusive(slope) ==
    IF FLe(SlopeThreshold, slope) THEN "Increasing"
    ELSE IF FLe(slope, FNeg(SlopeThreshold)) THEN "Decreasing"
    ELSE "Stable"

\* analyze_salinity_trend: the classification of the slope
classify_slope(slope) ==
    IF FGt(slope, SlopeThreshold) THEN "Increasing"
    ELSE IF FLt(slope, FNeg(SlopeThreshold)) THEN "Decreasing"
    ELSE "Stable"

\* SpectralAnalyzer::analyze_salinity_trend
analyze_salinity_trend(self, ndsi_series) ==
    IF Len(ndsi_series) < 2 THEN "Stable"
    ELSE classify_slope(trend_slope(self, ndsi_series))

(***************************************************************************)
(* AnalyzeService::detect_anomaly.                                         *)
(***************************************************************************)
\* Option<T>
None == [some |-> FALSE]
Some(v) == [some |-> TRUE, value |-> v]

\* AnalyzeService::new: the service owns a detector with default thresholds
AnalyzeService == [spectral_analyzer |-> new]

\* format!("{:.1}", x): the number of tenths printed, ties to even
format_1(x) ==
    IF ~IsFinite(x) THEN x
    ELSE LET t == FMul(x, FromInt(10))
             f == t.n \div t.d
             r == t.n - f * t.d
         IN  IF 2 * r < t.d THEN f
             ELSE IF 2 * r > t.d THEN f + 1
             ELSE IF f % 2 = 0 THEN f ELSE f + 1

\* historical_indices.iter().filter_map(|i| i.ndsi).collect()
historical_ndsi_of(historical_indices) ==
    LET kept == SelectSeq(historical_indices, LAMBDA i : i.ndsi.some)
    IN  [k \in 1..Len(kept) |-> kept[k].ndsi.value]

\* historical_indices.iter().filter_map(|i| i.red_edge_index).collect()
historical_red_edge_of(historical_indices) ==
    LET kept == SelectSeq(historical_indices, LAMBDA i : i.red_edge_index.some)
    IN  [k \in 1..Len(kept) |-> kept[k].red_edge_index.value]

\* a severity ladder with inclusive comparisons
ndsi_severity_inclusive(deviation_percentage) ==
    IF FLe(FromInt(50), deviation_percentage) THEN "Critical"
    ELSE IF FLe(FromInt(30), deviation_percentage) THEN "High"
    ELSE IF FLe(FromInt(15), deviation_percentage) THEN "Medium"
    ELSE "Low"

\* detect_anomaly: the severity of an NDSI peak
ndsi_severity(deviation_percentage) ==
    IF FGt(deviation_percentage, FromInt(50)) THEN "Critical"
    ELSE IF FGt(deviation_percentage, FromInt(30)) THEN "High"
    ELSE IF FGt(deviation_percentage, FromInt(15)) THEN "Medium"
    ELSE "Low"

\* detect_anomaly: the severity of a red-edge valley
red_edge_severity(deviation_percentage) ==
    IF FGt(FAbs(deviation_percentage), FromInt(40)) THEN "High"
    ELSE IF FGt(FAbs(deviation_percentage), FromInt(20)) THEN "Medium"
    ELSE "Low"

\* detect_anomaly with the red-edge check ahead of the NDSI check
detect_anomaly_red_edge_first(self, current_indices, historical_indices) ==
    IF historical_indices = <<>> THEN None
    ELSE
    LET ndsi_detection ==
            detect_peak_valley(self.spectral_analyzer, current_indices.ndsi.value,
                               historical_ndsi_of(historical_indices), "Ndsi")
        red_edge_detection ==
            detect_peak_valley(self.spectral_analyzer,
                               current_indices.red_edge_index.value,
                               historical_red_edge_of(historical_indices), "RedEdge")
    IN  IF current_indices.red_edge_index.some
           /\ red_edge_detection.detection_type = "Valley"
        THEN Some([alert_type |-> "CropStress",
                   severity |->
                       red_edge_severity(red_edge_detection.deviation_percentage),
                   description |->
                       [text |-> "Red Edge index decreased by {:.1}%, indicating potential crop stress",
                        tenths |->
                            format_1(FAbs(red_edge_detection.deviation_percentage))]])
        ELSE IF current_indices.ndsi.some /\ ndsi_detection.detection_type = "Peak"
        THEN Some([alert_type |-> "SalinityIntrusion",
                   severity |-> ndsi_severity(ndsi_detection.deviation_percentage),
                   description |->
                       [text |-> "NDSI increased by {:.1}% from baseline",
                        tenths |-> format_1(ndsi_detection.deviation_percentage)]])
        ELSE None

\* AnalyzeService::detect_anomaly
detect_anomaly(self, current_indices, historical_indices) ==
    IF historical_indices = <<>> THEN None
    ELSE
    LET ndsi_detection ==
            detect_peak_valley(self.spectral_analyzer, current_indices.ndsi.value,
                               historical_ndsi_of(historical_indices), "Ndsi")
        red_edge_detection ==
            detect_peak_valley(self.spectral_analyzer,
                               current_indices.red_edge_index.value,
                               historical_red_edge_of(historical_indices), "RedEdge")
    IN  IF current_indices.ndsi.some /\ ndsi_detection.detection_type = "Peak"
        THEN Some([alert_type |-> "SalinityIntrusion",
                   severity |-> ndsi_severity(ndsi_detection.deviation_percentage),
                   description |->
                       [text |-> "NDSI increased by {:.1}% from baseline",
                        tenths |-> format_1(ndsi_detection.deviation_percentage)]])
        ELSE IF current_indices.red_edge_index.some
                /\ red_edge_detection.detection_type = "Valley"
        THEN Some([alert_type |-> "CropStress",
                   severity |->
                       red_edge_severity(red_edge_detection.deviation_percentage),
                   description |->
                       [text |-> "Red Edge index decreased by {:.1}%, indicating potential crop stress",
                        tenths |->
                            format_1(FAbs(red_edge_detection.deviation_percentage))]])
        ELSE None

(***************************************************************************)
(* Inputs of the detector.                                                 *)
(***************************************************************************)
\* the sequences over vals of length at most n
SeqsUpTo(vals, n) == UNION {[1..k -> vals] : k \in 0..n}

\* thresholds handed to with_thresholds: the defaults, a negative peak
\* threshold, a valley threshold above the peak threshold
ThresholdValues == {Q(-15, 100), Q(15, 100), Q(1, 2)}

\* history values: baselines of 0, below 1e-6, exactly 1e-6, and ordinary
HistoryValues == {Q(-1, 1), Zero, Q(1, 1000000), One}

\* current values: deviations of -1/2, -0.15, 0, 0.15, 1/2 and 2 from a
\* baseline of 1
CurrentValues ==
    {Q(-1, 1), Zero, Q(1, 2), Q(85, 100), One, Q(115, 100), Q(3, 2), Q(3, 1)}

\* series values: steps of exactly 0.02, of 0.08 and of 1
SeriesValues == {Zero, Q(2, 100), Q(8, 100), One}

\* NDSI of the current reading: deviations of -300%, 15%, 30%, 50%, 100%
\* from a baseline of 1, and one below a negative baseline
CurrentNdsi == {None} \cup {Some(v) : v \in {Q(-2, 1), Q(115, 100), Q(13, 10), Q(3, 2), Q(2, 1)}}

\* red-edge index of the current reading: deviations of -15%, -20%, -40%,
\* -50% from a baseline of 1
CurrentRedEdge == {None} \cup {Some(v) : v \in {Q(85, 100), Q(8, 10), Q(6, 10), Q(1, 2)}}

\* historical SpectralIndices, reduced to the two fields detect_anomaly reads
HistoricalIndices ==
    [ndsi : {None, Some(One), Some(Q(-1, 1))}, red_edge_index : {None, Some(One)}]

(***************************************************************************)
(* The detector as a state machine.                                        *)
(***************************************************************************)
Init ==
    /\ analyzer = new
    /\ tasks = <<>>
    /\ shared = <<>>
    /\ op = "idle"
    /\ args = <<>>
    /\ ret = <<>>

\* the builder call SpectralAnalyzer::with_thresholds
WithThresholds ==
    /\ op = "idle"
    /\ \E peak \in ThresholdValues, valley \in ThresholdValues :
          analyzer' = with_thresholds(analyzer, peak, valley)
    /\ UNCHANGED <<op, args, ret, tasks, shared>>

DetectPeakValley ==
    /\ op = "idle"
    /\ \E current_value \in CurrentValues,
          historical_values \in SeqsUpTo(HistoryValues, MaxHist),
          index_type \in {"Ndsi", "RedEdge"} :
          /\ op' = "detect_peak_valley"
          /\ args' = <<current_value, historical_values, index_type>>
          /\ ret' = detect_peak_valley(analyzer, current_value, historical_values,
                                       index_type)
    /\ UNCHANGED <<analyzer, tasks, shared>>

AnalyzeSalinityTrend ==
    /\ op = "idle"
    /\ \E ndsi_series \in SeqsUpTo(SeriesValues, MaxSeries) :
          /\ op' = "analyze_salinity_trend"
          /\ args' = <<ndsi_series>>
          /\ ret' = analyze_salinity_trend(analyzer, ndsi_series)
    /\ UNCHANGED <<analyzer, tasks, shared>>

DetectAnomaly ==
    /\ op = "idle"
    /\ \E ndsi \in CurrentNdsi, red_edge_index \in CurrentRedEdge,
          historical_indices \in SeqsUpTo(HistoricalIndices, MaxLogs) :
          LET current_indices == [ndsi |-> ndsi, red_edge_index |-> red_edge_index]
          IN  /\ op' = "detect_anomaly"
              /\ args' = <<current_indices, historical_indices>>
              /\ ret' = detect_anomaly(AnalyzeService, current_indices,
                                       historical_indices)
    /\ UNCHANGED <<analyzer, tasks, shared>>

Next ==
    \/ WithThresholds
    \/ DetectPeakValley
    \/ AnalyzeSalinityTrend
    \/ DetectAnomaly
    \/ Return

Spec == Init /\ [][Next]_vars

(***************************************************************************)
(* Claims about the detector (checked under Spec).                         *)
(***************************************************************************)
\* the arithmetic mean of a non-empty history
HistoryMean(h) == FDiv(FSum(h), FromInt(Len(h)))

\* the deviation detect_peak_valley computed in the call in progress
CallDeviation == deviation_of(args[1], baseline_of(args[1], args[2]))

\* C5 as stated: for every detector instance, detect_peak_valley with an
\* empty history returns baseline_value = current, deviation_percentage = 0
\* and the classification Normal.
C5_EmptyHistoryNormal ==
    (op = "detect_peak_valley" /\ args[2] = <<>>) =>
        /\ ret.baseline_value = args[1]
        /\ ret.deviation_percentage = Zero
        /\ ret.detection_type = "Normal"

\* C5 amended: with an empty history baseline_value = current and
\* deviation_percentage = 0 for every instance, and the classification is
\* Normal for every instance whose thresholds satisfy
\* valley_threshold <= 0 <= peak_threshold (the defaults do).
C5_EmptyHistoryNormalForSignedThresholds ==
    (op = "detect_peak_valley" /\ args[2] = <<>>) =>
        /\ ret.baseline_value = args[1]
        /\ ret.value = args[1]
        /\ ret.deviation_percentage = Zero
        /\ (FLe(analyzer.valley_threshold, Zero) /\ FLe(Zero, analyzer.peak_threshold))
              => ret.detection_type = "Normal"

\* C5 witness: an instance configured through with_thresholds classified a
\* non-zero current value with an empty history as Normal.
C5_Witness ==
    /\ op = "detect_peak_valley"
    /\ args[2] = <<>>
    /\ args[1] # Zero
    /\ analyzer # new
    /\ ret.detection_type = "Normal"

\* C6 as stated: Peak exactly when deviation > peak_threshold, otherwise
\* Valley exactly when deviation < valley_threshold, otherwise Normal; a
\* deviation equal to either threshold is Normal; deviation_percentage is
\* deviation * 100.
C6_StrictClassification ==
    op = "detect_peak_valley" =>
        LET deviation == CallDeviation
            peak == FGt(deviation, analyzer.peak_threshold)
            valley == ~peak /\ FLt(deviation, analyzer.valley_threshold)
        IN  /\ ret.detection_type = "Peak" <=> peak
            /\ ret.detection_type = "Valley" <=> valley
            /\ ret.detection_type = "Normal" <=> (~peak /\ ~valley)
            /\ (deviation = analyzer.peak_threshold
                  \/ deviation = analyzer.valley_threshold)
                  => ret.detection_type = "Normal"
            /\ ret.deviation_percentage = FMul(deviation, FromInt(100))

\* C6 amended: the same, except that a deviation equal to a threshold is
\* Normal when valley_threshold <= peak_threshold; in every configuration a
\* deviation equal to peak_threshold is not Peak and a deviation equal to
\* valley_threshold is not Valley.
C6_StrictClassificationOrderedThresholds ==
    op = "detect_peak_valley" =>
        LET deviation == CallDeviation
            peak == FGt(deviation, analyzer.peak_threshold)
            valley == ~peak /\ FLt(deviation, analyzer.valley_threshold)
        IN  /\ ret.detection_type = "Peak" <=> peak
            /\ ret.detection_type = "Valley" <=> valley
            /\ ret.detection_type = "Normal" <=> (~peak /\ ~valley)
            /\ deviation = analyzer.peak_threshold => ret.detection_type # "Peak"
            /\ deviation = analyzer.valley_threshold => ret.detection_type # "Valley"
            /\ (FLe(analyzer.valley_threshold, analyzer.peak_threshold)
                  /\ (deviation = analyzer.peak_threshold
                        \/ deviation = analyzer.valley_threshold))
                  => ret.detection_type = "Normal"
            /\ ret.deviation_percentage = FMul(deviation, FromInt(100))

\* C6 witness: a deviation exactly at the peak threshold of an instance
\* with ordered thresholds, computed from a non-empty history, was Normal.
C6_Witness ==
    /\ op = "detect_peak_valley"
    /\ args[2] # <<>>
    /\ CallDeviation = analyzer.peak_threshold
    /\ FLt(analyzer.valley_threshold, analyzer.peak_threshold)
    /\ ret.detection_type = "Normal"
    /\ ret.deviation_percentage # Zero

\* C7 as stated: with a non-empty history whose mean has absolute value
\* below 1e-6 the deviation is 0; otherwise it is (current - mean) / mean.
C7_BaselineGuardBelow ==
    (op = "detect_peak_valley" /\ args[2] # <<>>) =>
        LET baseline == HistoryMean(args[2])
        IN  /\ ret.baseline_value = baseline
            /\ IsFinite(ret.deviation_percentage)
            /\ ret.deviation_percentage =
                  IF FLt(FAbs(baseline), EPS) THEN Zero
                  ELSE FMul(FDiv(FSub(args[1], baseline), baseline), FromInt(100))

\* C7 amended: the deviation is 0 when the mean has absolute value at most
\* 1e-6 (a mean of exactly 1e-6 or -1e-6 is guarded too); otherwise it is
\* (current - mean) / mean.
C7_BaselineGuardAtMost ==
    (op = "detect_peak_valley" /\ args[2] # <<>>) =>
        LET baseline == HistoryMean(args[2])
        IN  /\ ret.baseline_value = baseline
            /\ IsFinite(ret.deviation_percentage)
            /\ ret.deviation_percentage =
                  IF FLe(FAbs(baseline), EPS) THEN Zero
                  ELSE FMul(FDiv(FSub(args[1], baseline), baseline), FromInt(100))

\* C7 witness: a history whose mean is non-zero and below 1e-6, a current
\* value of 3, and a reported deviation of 0.
C7_Witness ==
    /\ op = "detect_peak_valley"
    /\ args[2] # <<>>
    /\ ret.baseline_value # Zero
    /\ FLt(FAbs(ret.baseline_value), EPS)
    /\ args[1] = Q(3, 1)
    /\ ret.deviation_percentage = Zero

\* C8: analyze_salinity_trend returns Stable for a series of fewer than 2
\* values; for a longer one Increasing exactly when the slope is > 0.02,
\* Decreasing exactly when it is < -0.02, Stable otherwise.
C8_TrendClassification ==
    op = "analyze_salinity_trend" =>
        LET slope == trend_slope(analyzer, args[1])
            up == FGt(slope, Q(2, 100))
            down == FLt(slope, Q(-2, 100))
        IN  /\ ret \in {"Increasing", "Decreasing", "Stable"}
            /\ Len(args[1]) < 2 => ret = "Stable"
            /\ Len(args[1]) >= 2 =>
                  /\ ret = "Increasing" <=> up
                  /\ ret = "Decreasing" <=> down
                  /\ ret = "Stable" <=> (~up /\ ~down)

\* C8 witness: a series of at least 3 values whose slope is exactly 0.02
\* was classified Stable.
C8_Witness ==
    /\ op = "analyze_salinity_trend"
    /\ Len(args[1]) >= 3
    /\ trend_slope(analyzer, args[1]) = Q(2, 100)
    /\ ret = "Stable"

\* the centered moving average of window w, clipped at the edges
ClippedMovingAverage(y, w) ==
    [i \in 1..Len(y) |->
        LET lo == IF i - (w \div 2) < 1 THEN 1 ELSE i - (w \div 2)
            hi == IF i + (w \div 2) > Len(y) THEN Len(y) ELSE i + (w \div 2)
        IN  FDiv(FSum([j \in 1..(hi - lo + 1) |-> y[lo + j - 1]]),
                 FromInt(hi - lo + 1))]

\* the least-squares slope of y against the positions 0..n-1:
\* (n Sxy - Sx Sy) / (n Sxx - Sx Sx)
LeastSquaresSlope(y) ==
    LET n == Len(y)
        sx == FromInt((n * (n - 1)) \div 2)
        sxx == FromInt(((n - 1) * n * (2 * n - 1)) \div 6)
        sy == FSum(y)
        sxy == FSum([i \in 1..n |-> FMul(FromInt(i - 1), y[i])])
    IN  FDiv(FSub(FMul(FromInt(n), sxy), FMul(sx, sy)),
             FSub(FMul(FromInt(n), sxx), FMul(sx, sx)))

\* C9 as stated: for every series of length >= 2 the slope classified is
\* the least-squares slope of the series smoothed by the clipped centered
\* moving average.
C9_SlopeOfSmoothedSeries ==
    (op = "analyze_salinity_trend" /\ Len(args[1]) >= 2) =>
        LET slope ==
                LeastSquaresSlope(ClippedMovingAverage(args[1], analyzer.smoothing_window))
        IN  /\ trend_slope(analyzer, args[1]) = slope
            /\ ret = classify_slope(slope)

\* C9 amended: that holds for every series at least as long as the
\* smoothing window; a series of length >= 2 that is shorter than the
\* window (length 2 with the default window 3) is not smoothed, and the
\* slope classified is the least-squares slope of the series itself.
C9_SlopeOfSmoothedSeriesFromWindowLength ==
    (op = "analyze_salinity_trend" /\ Len(args[1]) >= 2) =>
        LET smoothed ==
                IF Len(args[1]) >= analyzer.smoothing_window
                THEN ClippedMovingAverage(args[1], analyzer.smoothing_window)
                ELSE args[1]
            slope == LeastSquaresSlope(smoothed)
        IN  /\ trend_slope(analyzer, args[1]) = slope
            /\ ret = classify_slope(slope)

\* C9 witness: a series as long as the window, which the clipped average
\* changes at both edges, was classified Increasing.
C9_Witness ==
    /\ op = "analyze_salinity_trend"
    /\ Len(args[1]) = analyzer.smoothing_window
    /\ ClippedMovingAverage(args[1], 3)[1] # args[1][1]
    /\ ClippedMovingAverage(args[1], 3)[3] # args[1][3]
    /\ ret = "Increasing"

\* the deviation_percentage of the NDSI detection of the call in progress
NdsiPercentage ==
    detect_peak_valley(new, args[1].ndsi.value, historical_ndsi_of(args[2]),
                       "Ndsi").deviation_percentage

\* the deviation_percentage of the red-edge detection of the call in progress
RedEdgePercentage ==
    detect_peak_valley(new, args[1].red_edge_index.value,
                       historical_red_edge_of(args[2]), "RedEdge").deviation_percentage

\* C10: detect_anomaly grades an NDSI peak Critical if its
\* deviation_percentage is > 50, else High if > 30, else Medium if > 15,
\* else Low, and a red-edge valley High if |deviation_percentage| > 40,
\* else Medium if > 20, else Low; a value at 50, 30, 15, 40 or 20 falls in
\* the lower band.
C10_SeverityThresholds ==
    (op = "detect_anomaly" /\ ret.some) =>
        /\ ret.value.alert_type \in {"SalinityIntrusion", "CropStress"}
        /\ ret.value.alert_type = "SalinityIntrusion" =>
              LET p == NdsiPercentage
              IN  /\ ret.value.severity = "Critical" <=> FGt(p, FromInt(50))
                  /\ ret.value.severity = "High" <=>
                        (FGt(p, FromInt(30)) /\ FLe(p, FromInt(50)))
                  /\ ret.value.severity = "Medium" <=>
                        (FGt(p, FromInt(15)) /\ FLe(p, FromInt(30)))
                  /\ ret.value.severity = "Low" <=> FLe(p, FromInt(15))
        /\ ret.value.alert_type = "CropStress" =>
              LET p == FAbs(RedEdgePercentage)
              IN  /\ ret.value.severity = "High" <=> FGt(p, FromInt(40))
                  /\ ret.value.severity = "Medium" <=>
                        (FGt(p, FromInt(20)) /\ FLe(p, FromInt(40)))
                  /\ ret.value.severity = "Low" <=> FLe(p, FromInt(20))

\* C10 witness: an NDSI peak of exactly 50% was graded High.
C10_Witness ==
    /\ op = "detect_anomaly"
    /\ ret.some
    /\ ret.value.alert_type = "SalinityIntrusion"
    /\ NdsiPercentage = FromInt(50)
    /\ ret.value.severity = "High"

(***************************************************************************)
(* The mask polygonizer: mask_to_polygons and trace_polygon of             *)
(* infrastructure/ai/segmentation.rs, with the GeoTransform they map pixels *)
(* through.  A mask is a sequence of rows of booleans; pixel (x, y) of the *)
(* code is mask[y + 1][x + 1].  Coordinates are f64, modelled exactly.     *)
(***************************************************************************)
\* the most pixels (rows x columns) of a mask
MaxPixels == 9

\* GeoTransform::new: no rotation
GeoTransform_new(origin_x, origin_y, pixel_width, pixel_height) ==
    [origin_x |-> origin_x, origin_y |-> origin_y,
     pixel_width |-> pixel_width, pixel_height |-> pixel_height,
     rotation_x |-> Zero, rotation_y |-> Zero]

\* GeoTransform::pixel_to_coord
pixel_to_coord(self, x, y) ==
    LET lon == FAdd(FAdd(self.origin_x, FMul(x, self.pixel_width)),
                    FMul(y, self.rotation_x))
        lat == FAdd(FAdd(self.origin_y, FMul(x, self.rotation_y)),
                    FMul(y, self.pixel_height))
    IN  <<lon, lat>>

\* both axes divided by the pixel width
coord_to_pixel_square_pixels(self, lon, lat) ==
    <<FDiv(FSub(lon, self.origin_x), self.pixel_width),
      FDiv(FSub(lat, self.origin_y), self.pixel_width)>>

\* GeoTransform::coord_to_pixel
coord_to_pixel(self, lon, lat) ==
    LET x == FDiv(FSub(lon, self.origin_x), self.pixel_width)
        y == FDiv(FSub(lat, self.origin_y), self.pixel_height)
    IN  <<x, y>>

\* the eight neighbours, diagonals included
neighbors_with_diagonals ==
    <<<<0, -1>>, <<1, -1>>, <<1, 0>>, <<1, 1>>, <<0, 1>>, <<-1, 1>>, <<-1, 0>>, <<-1, -1>>>>

\* the neighbour offsets (dx, dy) of trace_polygon, in the order it pushes them
neighbors == <<<<0, -1>>, <<1, 0>>, <<0, 1>>, <<-1, 0>>>>

\* the neighbours pushed whether visited or not
pushed_neighbors_visited_too(mask, visited, x, y) ==
    SelectSeq([i \in 1..Len(neighbors) |-> <<x + neighbors[i][1], y + neighbors[i][2]>>],
              LAMBDA p : /\ p[1] >= 0 /\ p[2] >= 0
                         /\ p[2] < Len(mask) /\ p[1] < Len(mask[1])
                         /\ mask[p[2] + 1][p[1] + 1])

\* the neighbours of (x, y) that trace_polygon pushes: inside the mask, true
\* and not yet visited
pushed_neighbors(mask, visited, x, y) ==
    LET cand == [i \in 1..Len(neighbors) |-> <<x + neighbors[i][1], y + neighbors[i][2]>>]
        wanted(p) ==
            LET nx == p[1]
                ny == p[2]
            IN  /\ nx >= 0 /\ ny >= 0
                /\ ny < Len(mask) /\ nx < Len(mask[1])
                /\ mask[ny + 1][nx + 1] /\ ~visited[ny + 1][nx + 1]
    IN  SelectSeq(cand, wanted)

\* the while loop of trace_polygon: pop the last pushed pixel, skip it when
\* visited, otherwise mark it, record its coordinate and push its neighbours
RECURSIVE trace_loop(_, _, _, _, _)
trace_loop(mask, visited, stack, boundary, geo_transform) ==
    IF stack = <<>>
    THEN [visited |-> visited, boundary |-> boundary]
    ELSE LET x == stack[Len(stack)][1]
             y == stack[Len(stack)][2]
             rest == SubSeq(stack, 1, Len(stack) - 1)
         IN  IF visited[y + 1][x + 1]
             THEN trace_loop(mask, visited, rest, boundary, geo_transform)
             ELSE LET marked == [visited EXCEPT ![y + 1][x + 1] = TRUE]
                  IN  trace_loop(mask, marked,
                                 rest \o pushed_neighbors(mask, marked, x, y),
                                 Append(boundary,
                                        pixel_to_coord(geo_transform, FromInt(x), FromInt(y))),
                                 geo_transform)

\* a ring out of two points already
close_ring_from_two(boundary) ==
    IF Len(boundary) >= 2
    THEN Some([coordinates |-> <<Append(boundary, boundary[1])>>, crs |-> "EPSG:4326"])
    ELSE None

\* the ring left open
close_ring_open(boundary) ==
    IF Len(boundary) >= 3
    THEN Some([coordinates |-> <<boundary>>, crs |-> "EPSG:4326"])
    ELSE None

\* the end of trace_polygon: a closed ring from three points on, else nothing
close_ring(boundary) ==
    IF Len(boundary) >= 3
    THEN Some([coordinates |-> <<Append(boundary, boundary[1])>>, crs |-> "EPSG:4326"])
    ELSE None

\* SegmentationModel::trace_polygon: the polygon, and the visited grid it leaves
trace_polygon(mask, visited, start_x, start_y, geo_transform) ==
    LET t == trace_loop(mask, visited, <<<<start_x, start_y>>>>, <<>>, geo_transform)
    IN  [visited |-> t.visited, polygon |-> close_ring(t.boundary)]

\* the two for loops of mask_to_polygons from pixel number k (row-major) on
RECURSIVE scan_mask(_, _, _, _, _)
scan_mask(mask, geo_transform, k, visited, polygons) ==
    LET height == Len(mask)
        width == IF height > 0 THEN Len(mask[1]) ELSE 0
    IN  IF k >= height * width
        THEN [polygons |-> polygons, visited |-> visited]
        ELSE LET y == k \div width
                 x == k % width
             IN  IF mask[y + 1][x + 1] /\ ~visited[y + 1][x + 1]
                 THEN LET t == trace_polygon(mask, visited, x, y, geo_transform)
                      IN  scan_mask(mask, geo_transform, k + 1, t.visited,
                                    IF t.polygon.some
                                    THEN Append(polygons, t.polygon.value)
                                    ELSE polygons)
                 ELSE scan_mask(mask, geo_transform, k + 1, visited, polygons)

\* SegmentationModel::mask_to_polygons
mask_to_polygons(mask, geo_transform) ==
    LET height == Len(mask.mask)
        width == IF height > 0 THEN Len(mask.mask[1]) ELSE 0
        visited == [y \in 1..height |-> [x \in 1..width |-> FALSE]]
    IN  scan_mask(mask.mask, geo_transform, 0, visited, <<>>).polygons

(***************************************************************************)
(* Inputs of the polygonizer.                                              *)
(***************************************************************************)
\* every rectangular grid of at most MaxPixels pixels: rows of one length,
\* no row or no column included
Grids ==
    UNION {[1..s[1] -> [1..s[2] -> BOOLEAN]] :
              s \in {t \in (0..MaxPixels) \X (0..MaxPixels) : t[1] * t[2] <= MaxPixels}}

\* ClassMask: the class fields ride along, only the grid is read
ClassMasks ==
    {[class_id |-> 1, class_name |-> "rice", mask |-> g, confidence |-> Q(9, 10)] :
        g \in Grids}

\* a north-up transform of half-degree pixels, and a rotated one
NorthUp == GeoTransform_new(FromInt(10), FromInt(20), Q(1, 2), Q(-1, 2))
Rotated ==
    [origin_x |-> Zero, origin_y |-> Zero, pixel_width |-> One,
     pixel_height |-> Q(-1, 1), rotation_x |-> Q(1, 2), rotation_y |-> Q(1, 4)]

GeoTransforms == {NorthUp, Rotated}

\* transforms of the conversions: also non-square pixels and a zero width
ConversionTransforms ==
    GeoTransforms \cup {GeoTransform_new(Zero, One, FromInt(2), FromInt(3)),
                        GeoTransform_new(Zero, Zero, Zero, One)}

PixelValues == {Q(-1, 1), Zero, One, Q(5, 2)}
CoordValues == {Q(-3, 1), Zero, FromInt(10), Q(41, 4)}

(***************************************************************************)
(* The polygonizer as a state machine: a call, then its return.            *)
(***************************************************************************)
InitSeg ==
    /\ analyzer = new
    /\ tasks = <<>>
    /\ shared = <<>>
    /\ op = "idle"
    /\ args = <<>>
    /\ ret = <<>>

MaskToPolygons ==
    /\ op = "idle"
    /\ \E mask \in ClassMasks, geo_transform \in GeoTransforms :
          /\ op' = "mask_to_polygons"
          /\ args' = <<mask, geo_transform>>
          /\ ret' = mask_to_polygons(mask, geo_transform)
    /\ UNCHANGED <<analyzer, tasks, shared>>

PixelToCoord ==
    /\ op = "idle"
    /\ \E self \in ConversionTransforms, x \in PixelValues, y \in PixelValues :
          /\ op' = "pixel_to_coord"
          /\ args' = <<self, x, y>>
          /\ ret' = pixel_to_coord(self, x, y)
    /\ UNCHANGED <<analyzer, tasks, shared>>

CoordToPixel ==
    /\ op = "idle"
    /\ \E self \in ConversionTransforms, lon \in CoordValues, lat \in CoordValues :
          /\ op' = "coord_to_pixel"
          /\ args' = <<self, lon, lat>>
          /\ ret' = coord_to_pixel(self, lon, lat)
    /\ UNCHANGED <<analyzer, tasks, shared>>

NextSeg ==
    \/ MaskToPolygons
    \/ PixelToCoord
    \/ CoordToPixel
    \/ Return

SpecSeg == InitSeg /\ [][NextSeg]_vars

(***************************************************************************)
(* mask_to_polygons step by step.  A call in progress is a task: its       *)
(* inputs, its position (pc) and its locals, the visited grid and the      *)
(* stack among them.  A step is one turn of the scanning loops of          *)
(* mask_to_polygons or one turn of the while loop of trace_polygon.        *)
(* SegmentationModel carries no field the operation writes, so a step      *)
(* reads and writes its own task only.                                     *)
(***************************************************************************)
\* the visited grid taken over from the call started last
retained_visited(mask, running) ==
    IF running # <<>> /\ Len(running[Len(running)].visited) = Len(mask)
    THEN running[Len(running)].visited
    ELSE [y \in 1..Len(mask) |-> [x \in 1..(IF Len(mask) > 0 THEN Len(mask[1]) ELSE 0) |-> FALSE]]

\* `vec![vec![false; width]; height]` of mask_to_polygons; what the calls
\* already running hold is not read
fresh_visited(mask, running) ==
    [y \in 1..Len(mask) |-> [x \in 1..(IF Len(mask) > 0 THEN Len(mask[1]) ELSE 0) |-> FALSE]]

\* the locals of mask_to_polygons as the call begins
begin_call(mask, geo_transform, running) ==
    [pc |-> "scan", mask |-> mask, geo_transform |-> geo_transform,
     visited |-> fresh_visited(mask.mask, running), polygons |-> <<>>, k |-> 0,
     stack |-> <<>>, boundary |-> <<>>]

\* the number of pixels of the mask of task t
pixel_count(t) == Len(t.mask.mask) * (IF Len(t.mask.mask) > 0 THEN Len(t.mask.mask[1]) ELSE 0)

\* one turn of the loops over y and x, at pixel number k (row-major): the
\* loops end, or trace_polygon is entered at the pixel, or the pixel is passed
scan_step(t, x, y) ==
    IF t.k >= pixel_count(t) THEN [t EXCEPT !.pc = "done"]
    ELSE IF t.mask.mask[y + 1][x + 1] /\ ~t.visited[y + 1][x + 1]
    THEN [t EXCEPT !.pc = "trace", !.stack = <<<<x, y>>>>, !.boundary = <<>>]
    ELSE [t EXCEPT !.k = t.k + 1]

\* the turn of the while loop that pops the unvisited pixel (x, y): it is
\* marked, its coordinate recorded and its neighbours pushed
visit_pixel(t, x, y, rest, marked) ==
    [t EXCEPT !.visited = marked,
              !.boundary = Append(t.boundary,
                                  pixel_to_coord(t.geo_transform, FromInt(x), FromInt(y))),
              !.stack = rest \o pushed_neighbors(t.mask.mask, marked, x, y)]

\* the end of trace_polygon and the push of its polygon in mask_to_polygons
leave_trace(t, polygon) ==
    [t EXCEPT !.pc = "scan", !.k = t.k + 1, !.stack = <<>>, !.boundary = <<>>,
              !.polygons = IF polygon.some THEN Append(t.polygons, polygon.value)
                           ELSE t.polygons]

\* one turn of `while let Some((x, y)) = stack.pop()`
pop_step(t) ==
    IF t.stack = <<>> THEN leave_trace(t, close_ring(t.boundary))
    ELSE IF t.visited[t.stack[Len(t.stack)][2] + 1][t.stack[Len(t.stack)][1] + 1]
    THEN [t EXCEPT !.stack = SubSeq(t.stack, 1, Len(t.stack) - 1)]
    ELSE visit_pixel(t, t.stack[Len(t.stack)][1], t.stack[Len(t.stack)][2],
                     SubSeq(t.stack, 1, Len(t.stack) - 1),
                     [t.visited EXCEPT ![t.stack[Len(t.stack)][2] + 1]
                                        [t.stack[Len(t.stack)][1] + 1] = TRUE])

\* the most pixels of a mask traced step by step
MaxFillPixels == 5
\* the most calls of mask_to_polygons in progress at a time
MaxCalls == 2

\* the masks traced step by step: every grid of at most MaxFillPixels pixels
FillMasks ==
    {[class_id |-> 1, class_name |-> "rice", mask |-> g, confidence |-> Q(9, 10)] :
        g \in UNION {[1..s[1] -> [1..s[2] -> BOOLEAN]] :
                        s \in {t \in (0..MaxFillPixels) \X (0..MaxFillPixels) :
                                  t[1] * t[2] <= MaxFillPixels}}}

\* the masks of the concurrent calls: no row, a full square, its diagonal, a
\* corner of three pixels
ConcurrentMasks ==
    {[class_id |-> 1, class_name |-> "rice", mask |-> g, confidence |-> Q(9, 10)] :
        g \in {<<>>,
               <<<<TRUE, TRUE>>, <<TRUE, TRUE>>>>,
               <<<<TRUE, FALSE>>, <<FALSE, TRUE>>>>,
               <<<<TRUE, TRUE>>, <<TRUE, FALSE>>>>}}

\* a call of mask_to_polygons begins while fewer than limit are in progress
BeginCall(masks, limit) ==
    /\ Len(tasks) < limit
    /\ \E mask \in masks, geo_transform \in GeoTransforms :
          tasks' = Append(tasks, begin_call(mask, geo_transform, tasks))
    /\ UNCHANGED <<analyzer, op, args, ret, shared>>

\* a call alone
BeginFill == BeginCall(FillMasks, 1)

\* a call next to the calls in progress
BeginConcurrent == BeginCall(ConcurrentMasks, MaxCalls)

\* some call takes one turn of its scanning loops
ScanStep ==
    /\ \E c \in DOMAIN tasks :
          /\ tasks[c].pc = "scan"
          /\ tasks' = [tasks EXCEPT ![c] =
                          scan_step(tasks[c],
                                    IF tasks[c].k < pixel_count(tasks[c])
                                    THEN tasks[c].k % Len(tasks[c].mask.mask[1]) ELSE 0,
                                    IF tasks[c].k < pixel_count(tasks[c])
                                    THEN tasks[c].k \div Len(tasks[c].mask.mask[1]) ELSE 0)]
    /\ UNCHANGED <<analyzer, op, args, ret, shared>>

\* some call takes one turn of the while loop of trace_polygon
PopStep ==
    /\ \E c \in DOMAIN tasks :
          /\ tasks[c].pc = "trace"
          /\ tasks' = [tasks EXCEPT ![c] = pop_step(tasks[c])]
    /\ UNCHANGED <<analyzer, op, args, ret, shared>>

NextFill ==
    \/ BeginFill
    \/ ScanStep
    \/ PopStep

\* one call at a time
SpecFill == InitSeg /\ [][NextFill]_vars

NextCalls ==
    \/ BeginConcurrent
    \/ ScanStep
    \/ PopStep

\* up to MaxCalls calls, their steps interleaved in any order
SpecCalls == InitSeg /\ [][NextCalls]_vars

(***************************************************************************)
(* SentinelClient::ensure_token, infrastructure/satellite/                 *)
(* sentinel_client.rs.  Callers run concurrently; shared is the client:    *)
(* the cached access_token behind its RwLock, the holder of the write      *)
(* guard (0 for none), the clock in minutes, and the tokens the server has *)
(* issued.  A read guard is taken and dropped within one step, since no    *)
(* await lies between; the write guard is held across the awaits of the    *)
(* request.                                                                *)
(***************************************************************************)
\* chrono::Duration::minutes(5)
TokenMargin == 5

\* the most concurrent callers, and the minutes the clock runs
MaxCallers == 3
MaxClock == 3

\* expires_in of a token response, in minutes: at most the margin, above it
ExpiresIn == {4, 6, 8}

\* DomainError::satellite_api(msg)
satellite_api(msg) == [ok |-> FALSE, kind |-> "SatelliteApi", msg |-> msg]

\* the ways a token request fails: send, status, parse
RequestFailures ==
    {"Token request failed", "Token request failed with status",
     "Failed to parse token response"}

\* `if let Some(ref token) = *token_guard` and
\* `token.expires_at > Utc::now() + chrono::Duration::minutes(5)`
token_fresh(access_token, now) ==
    access_token.some /\ access_token.value.expires_at > now + TokenMargin

\* a second check that never finds a token
write_check_skipped(access_token, now) == FALSE

\* the check under the write guard
write_check(access_token, now) == token_fresh(access_token, now)

\* a caller that returns with result r
returned(t, r) == [t EXCEPT !.pc = "done", !.ret = r]

\* a caller that has made one more check of the cached token
checked(t) == [t EXCEPT !.checks = t.checks + 1]

\* SentinelClient::new: no token
InitToken ==
    /\ analyzer = new
    /\ op = "idle"
    /\ args = <<>>
    /\ ret = <<>>
    /\ tasks = <<>>
    /\ shared = [access_token |-> None, writer |-> 0, now |-> 0, issued |-> 0]

\* a task calls ensure_token
BeginEnsure ==
    /\ Len(tasks) < MaxCallers
    /\ tasks' = Append(tasks, [pc |-> "read", ret |-> <<>>, checks |-> 0, sent |-> 0])
    /\ UNCHANGED <<analyzer, op, args, ret, shared>>

\* the block under the read guard: return the cached token when it is
\* fresh, go on to the write guard otherwise
ReadCheck ==
    /\ \E c \in DOMAIN tasks :
          /\ tasks[c].pc = "read"
          /\ shared.writer = 0
          /\ tasks' = [tasks EXCEPT ![c] =
                          IF token_fresh(shared.access_token, shared.now)
                          THEN returned(checked(tasks[c]), Ok(shared.access_token.value.token))
                          ELSE [checked(tasks[c]) EXCEPT !.pc = "write"]]
    /\ UNCHANGED <<analyzer, op, args, ret, shared>>

\* the write guard is acquired: return the cached token when it is fresh,
\* dropping the guard; otherwise send the token request, keeping it
WriteCheck ==
    /\ \E c \in DOMAIN tasks :
          /\ tasks[c].pc = "write"
          /\ shared.writer = 0
          /\ IF write_check(shared.access_token, shared.now)
             THEN /\ tasks' = [tasks EXCEPT ![c] =
                                  returned(checked(tasks[c]), Ok(shared.access_token.value.token))]
                  /\ UNCHANGED shared
             ELSE /\ tasks' = [tasks EXCEPT ![c] =
                                  [checked(tasks[c]) EXCEPT !.pc = "sending", !.sent = 1]]
                  /\ shared' = [shared EXCEPT !.writer = c]
    /\ UNCHANGED <<analyzer, op, args, ret>>

\* the request fails: the error is returned and the guard dropped
RequestFails ==
    /\ \E c \in DOMAIN tasks, msg \in RequestFailures :
          /\ tasks[c].pc = "sending"
          /\ tasks' = [tasks EXCEPT ![c] = returned(tasks[c], satellite_api(msg))]
          /\ shared' = [shared EXCEPT !.writer = 0]
    /\ UNCHANGED <<analyzer, op, args, ret>>

\* the request succeeds: the token is stored with its expiry from the clock
\* at that moment, returned, and the guard dropped
RequestSucceeds ==
    /\ \E c \in DOMAIN tasks, expires_in \in ExpiresIn :
          /\ tasks[c].pc = "sending"
          /\ tasks' = [tasks EXCEPT ![c] = returned(tasks[c], Ok(shared.issued + 1))]
          /\ shared' = [shared EXCEPT
                           !.access_token = Some([token |-> shared.issued + 1,
                                                  expires_at |-> shared.now + expires_in]),
                           !.issued = shared.issued + 1,
                           !.writer = 0]
    /\ UNCHANGED <<analyzer, op, args, ret>>

\* a minute passes
Tick ==
    /\ shared.now < MaxClock
    /\ shared' = [shared EXCEPT !.now = shared.now + 1]
    /\ UNCHANGED <<analyzer, op, args, ret, tasks>>

NextToken ==
    \/ BeginEnsure
    \/ ReadCheck
    \/ WriteCheck
    \/ RequestFails
    \/ RequestSucceeds
    \/ Tick

SpecToken == InitToken /\ [][NextToken]_vars

(***************************************************************************)
(* Reference notions for the polygonizer claims: the 4-connected           *)
(* components of a grid, computed as a closure and not by the flood fill.  *)
(***************************************************************************)
GridWidth(g) == IF Len(g) > 0 THEN Len(g[1]) ELSE 0

TruePixels(g) ==
    {p \in (0..(GridWidth(g) - 1)) \X (0..(Len(g) - 1)) : g[p[2] + 1][p[1] + 1]}

EdgeAdjacent(p, q) == Abs(p[1] - q[1]) + Abs(p[2] - q[2]) = 1

CornerAdjacent(p, q) == Abs(p[1] - q[1]) = 1 /\ Abs(p[2] - q[2]) = 1

\* the pixels of P reachable from S over shared edges
RECURSIVE Grow(_, _)
Grow(P, S) ==
    LET T == S \cup {q \in P : \E p \in S : EdgeAdjacent(p, q)}
    IN  IF T = S THEN S ELSE Grow(P, T)

Components(g) ==
    LET P == TruePixels(g)
    IN  {Grow(P, {p}) : p \in P}

LargeComponents(g) == {C \in Components(g) : Cardinality(C) >= 3}

RowMajor(g, p) == p[2] * GridWidth(g) + p[1]

\* the pixel of C the row-major scan meets first
FirstPixel(g, C) == CHOOSE p \in C : \A q \in C : RowMajor(g, p) <= RowMajor(g, q)

\* the k-th large component in the order of first pixels
ComponentOfRank(g, k) ==
    LET L == LargeComponents(g)
    IN  CHOOSE C \in L :
            Cardinality({D \in L : RowMajor(g, FirstPixel(g, D))
                                      < RowMajor(g, FirstPixel(g, C))}) = k - 1

\* the affine map of the specification, written out
AffineCoord(t, p) ==
    <<FAdd(FAdd(t.origin_x, FMul(FromInt(p[1]), t.pixel_width)),
           FMul(FromInt(p[2]), t.rotation_x)),
      FAdd(FAdd(t.origin_y, FMul(FromInt(p[1]), t.rotation_y)),
           FMul(FromInt(p[2]), t.pixel_height))>>

\* the points of a sequence, as a set
Range(s) == {s[i] : i \in 1..Len(s)}

\* the pixels of the grid whose coordinate a polygon lists
PixelsOf(g, t, polygon) ==
    {p \in (0..(GridWidth(g) - 1)) \X (0..(Len(g) - 1)) :
        \E r \in Range(polygon.coordinates) : AffineCoord(t, p) \in Range(r)}

CallGrid == args[1].mask
CallTransform == args[2]

(***************************************************************************)
(* Claims about the polygonizer.                                           *)
(***************************************************************************)
\* C11: mask_to_polygons drops every 4-connected component of fewer than 3
\* true pixels: no returned polygon lists a pixel of such a component, and a
\* mask all of whose components are that small (a single pixel, an all-false
\* or an empty mask included) yields no polygon at all.
C11_SmallComponentsDropped ==
    op = "mask_to_polygons" =>
        /\ \A C \in Components(CallGrid) :
              Cardinality(C) < 3 =>
                  \A k \in 1..Len(ret) :
                      PixelsOf(CallGrid, CallTransform, ret[k]) \cap C = {}
        /\ LargeComponents(CallGrid) = {} => ret = <<>>

\* a mask holding a component of one or two pixels next to one that became a
\* polygon
C11_Witness ==
    /\ op = "mask_to_polygons"
    /\ \E C \in Components(CallGrid) : Cardinality(C) = 2
    /\ Len(ret) = 1

\* C12: on a rectangular mask there is exactly one polygon per 4-connected
\* component of at least 3 pixels, in the row-major order of the components'
\* first pixels; pixels touching only diagonally stay in different
\* components; the polygons list disjoint sets of true pixels only.
C12_OnePolygonPerComponent ==
    op = "mask_to_polygons" =>
        /\ Len(ret) = Cardinality(LargeComponents(CallGrid))
        /\ \A k \in 1..Len(ret) :
              PixelsOf(CallGrid, CallTransform, ret[k]) = ComponentOfRank(CallGrid, k)
        /\ \A k \in 1..Len(ret) :
              PixelsOf(CallGrid, CallTransform, ret[k]) \subseteq TruePixels(CallGrid)
        /\ \A j \in 1..Len(ret), k \in 1..Len(ret) :
              j # k => PixelsOf(CallGrid, CallTransform, ret[j])
                         \cap PixelsOf(CallGrid, CallTransform, ret[k]) = {}

\* two polygons out of two components that touch at a corner
C12_Witness ==
    /\ op = "mask_to_polygons"
    /\ Len(ret) = 2
    /\ \E p \in PixelsOf(CallGrid, CallTransform, ret[1]),
          q \in PixelsOf(CallGrid, CallTransform, ret[2]) : CornerAdjacent(p, q)

\* C13: every polygon has exactly one ring; the ring lists the affine
\* coordinate of each pixel of its component exactly once, the component's
\* first pixel first, and then repeats its first point, so that it is closed
\* and has one point more than the component has pixels, at least 4.
C13_ClosedRing ==
    op = "mask_to_polygons" =>
        \A k \in 1..Len(ret) :
            /\ Len(ret[k].coordinates) = 1
            /\ LET ring == ret[k].coordinates[1]
                   C == ComponentOfRank(CallGrid, k)
                   n == Cardinality(C)
               IN  /\ Len(ring) = n + 1
                   /\ Len(ring) >= 4
                   /\ ring[1] = ring[Len(ring)]
                   /\ ring[1] = AffineCoord(CallTransform, FirstPixel(CallGrid, C))
                   /\ {ring[i] : i \in 1..n} = {AffineCoord(CallTransform, p) : p \in C}
                   /\ \A i \in 1..n, j \in 1..n : i # j => ring[i] # ring[j]

\* a ring of five pixels under the rotated transform
C13_Witness ==
    /\ op = "mask_to_polygons"
    /\ CallTransform = Rotated
    /\ \E k \in 1..Len(ret) : Len(ret[k].coordinates[1]) = 6

\* both pixel sizes non-zero and no rotation
IsNorthUp(t) ==
    /\ t.rotation_x = Zero /\ t.rotation_y = Zero
    /\ t.pixel_width # Zero /\ t.pixel_height # Zero

\* C14: for a transform without rotation and with non-zero pixel sizes,
\* coord_to_pixel undoes pixel_to_coord and pixel_to_coord undoes
\* coord_to_pixel, exactly.
C14_RoundTrip ==
    /\ (op = "pixel_to_coord" /\ IsNorthUp(args[1])) =>
          coord_to_pixel(args[1], ret[1], ret[2]) = <<args[2], args[3]>>
    /\ (op = "coord_to_pixel" /\ IsNorthUp(args[1])) =>
          pixel_to_coord(args[1], ret[1], ret[2]) = <<args[2], args[3]>>

\* a coordinate off the pixel corners converted under non-square pixels
C14_Witness ==
    /\ op = "coord_to_pixel"
    /\ IsNorthUp(args[1])
    /\ args[1].pixel_width # args[1].pixel_height
    /\ ret[1].d # 1
    /\ ret[2].d # 1

(***************************************************************************)
(* f64 arithmetic of the vector analysis.  Values stay exact rationals     *)
(* wherever the exact result fits the integers of the model; a product or  *)
(* sum that does not fit is rounded to 15 significant bits, and magnitudes *)
(* below 2^-30 are flushed to zero.  The library functions (sqrt, sin,     *)
(* cos, asin, atan2) are truncated series, exact at the arguments the      *)
(* properties below turn on; pi is 355/113.                                *)
(***************************************************************************)
Max(i, j) == IF i < j THEN j ELSE i
Min(i, j) == IF i < j THEN i ELSE j

\* p * q fits a machine integer of the model
MulFits(p, q) == q = 0 \/ Abs(p) <= 2147483647 \div Abs(q)

\* floor(log2(n/d)) for n >= d > 0
RECURSIVE Log2Up(_, _)
Log2Up(n, d) == IF n \div 2 >= d THEN 1 + Log2Up(n \div 2, d) ELSE 0

\* the least j with n * 2^j >= d, for 0 < n < d
RECURSIVE Log2Down(_, _)
Log2Down(n, d) ==
    IF n >= d THEN 0
    ELSE IF n >= 1073741824 THEN 1
    ELSE 1 + Log2Down(2 * n, d)

\* floor(log2(x)) of a finite x > 0
Log2Floor(x) == IF x.n >= x.d THEN Log2Up(x.n, x.d) ELSE -Log2Down(x.n, x.d)

\* long division: <<floor(n * 2^s / d), remainder>> from quotient q and
\* remainder r of n / d, one bit at a time
RECURSIVE ShiftDivLoop(_, _, _, _)
ShiftDivLoop(q, r, d, s) ==
    IF s = 0 THEN <<q, r>>
    ELSE IF 2 * r >= d THEN ShiftDivLoop(2 * q + 1, 2 * r - d, d, s - 1)
    ELSE ShiftDivLoop(2 * q, 2 * r, d, s - 1)

\* <<floor(n * 2^s / d), remainder>> for n >= 0, d > 0 and any s; a
\* denominator above 2^30 is halved first, with its numerator
ShiftDiv(n, d, s) ==
    IF s < 0 THEN <<(n \div (2 ^ (-s))) \div d, 1>>
    ELSE IF d > 1073741824 THEN ShiftDivLoop((n \div 2) \div (d \div 2), (n \div 2) % (d \div 2), d \div 2, s)
    ELSE ShiftDivLoop(n \div d, n % d, d, s)

\* the value m * 2^e, flushed below 2^-30
Dyadic(m, e) ==
    IF e >= 0 THEN Q(m * (2 ^ e), 1)
    ELSE IF -e <= 30 THEN Q(m, 2 ^ (-e))
    ELSE IF -e - 30 >= 31 THEN Zero
    ELSE Q(Sign(m) * (Abs(m) \div (2 ^ (-e - 30))), 1073741824)

\* the float of x with exponent e: floor(|x| / 2^e) with the sign of x
Leading(x, e) == [m |-> Sign(x.n) * ShiftDiv(Abs(x.n), x.d, -e)[1], e |-> e]

\* a finite x as m * 2^e with |m| < 2^15: the 15 leading bits of x
ToFloat(x) ==
    IF x.n = 0 THEN [m |-> 0, e |-> 0] ELSE Leading(x, Log2Floor(FAbs(x)) - 14)

\* the product of the floats fa and fb
MulFloats(fa, fb) == Dyadic(fa.m * fb.m, fa.e + fb.e)

\* the product of finite a and b fits, g1 and g2 being the factors that cancel
MulExact(a, b, g1, g2) ==
    MulFits(a.n \div g1, b.n \div g2) /\ MulFits(a.d \div g2, b.d \div g1)

\* f64 `a * b`
F64Mul(a, b) ==
    IF a.d = 0 \/ b.d = 0 \/ MulExact(a, b, Gcd(Abs(a.n), b.d), Gcd(Abs(b.n), a.d))
    THEN FMul(a, b)
    ELSE MulFloats(ToFloat(a), ToFloat(b))

\* f64 `a / b`
F64Div(a, b) ==
    IF a.d = 0 /\ b.d = 0 THEN NaN
    ELSE F64Mul(a, FInv(b))

\* the sum of a and b, whose floats are fa and fb: the smaller operand is
\* absorbed when it lies more than 15 bits below the larger one
AddFloats(a, b, fa, fb) ==
    IF fa.m = 0 THEN b
    ELSE IF fb.m = 0 THEN a
    ELSE IF fa.e - fb.e > 15 THEN a
    ELSE IF fb.e - fa.e > 15 THEN b
    ELSE IF fa.e >= fb.e
         THEN Dyadic(fa.m * (2 ^ (fa.e - fb.e)) + fb.m, fb.e)
         ELSE Dyadic(fb.m * (2 ^ (fb.e - fa.e)) + fa.m, fa.e)

\* the sum of finite a and b fits, g being the common factor of the
\* denominators
AddExact(a, b, g) ==
    /\ MulFits(a.n, b.d \div g)
    /\ MulFits(b.n, a.d \div g)
    /\ MulFits(a.d \div g, b.d)
    /\ Abs(a.n * (b.d \div g)) <= 2147483647 - Abs(b.n * (a.d \div g))

\* f64 `a + b`
F64Add(a, b) ==
    IF a.d = 0 \/ b.d = 0 \/ AddExact(a, b, Gcd(a.d, b.d)) THEN FAdd(a, b)
    ELSE AddFloats(a, b, ToFloat(a), ToFloat(b))

\* f64 `a - b`
F64Sub(a, b) == F64Add(a, FNeg(b))

\* r is the exact root of n
IsSquare(n, r) == r * r = n

\* the root of the float f, its exponent made even first
SqrtFloat(f) ==
    IF f.e % 2 = 0
    THEN Dyadic(ISqrt(f.m * 16384), (f.e - 14) \div 2)
    ELSE Dyadic(ISqrt(f.m * 32768), (f.e - 15) \div 2)

\* f64::sqrt: NaN for NaN and for negative values; exact on ratios of
\* squares, the 15 leading bits of the root otherwise
F64Sqrt(x) ==
    IF IsNaN(x) \/ x.n < 0 THEN NaN
    ELSE IF x.d = 0 THEN x
    ELSE IF IsSquare(x.n, ISqrt(x.n)) /\ IsSquare(x.d, ISqrt(x.d))
         THEN Q(ISqrt(x.n), ISqrt(x.d))
    ELSE SqrtFloat(ToFloat(x))

\* the root of sp^2 + sq^2, scaled back by 2^-k
RootOfSquares(sp, sq, k) == Dyadic(ISqrt(sp * sp + sq * sq), -k)

\* the root of the sum of the squares of p and q, both scaled by 2^k and cut
\* to integers
ScaledRoot(p, q, k) ==
    RootOfSquares(ShiftDiv(Abs(p.n), p.d, k)[1], ShiftDiv(Abs(q.n), q.d, k)[1], k)

\* f64 `(p * p + q * q).sqrt()`: the root of the exact sum where the squares
\* fit; otherwise the root of the sum of the squares of the operands cut to
\* the 14 leading bits of the larger one
\* (the squares themselves may lie below the resolution of the model)
sqrt_sum_squares(p, q) ==
    IF IsNaN(p) \/ IsNaN(q) THEN NaN
    ELSE IF p.d = 0 \/ q.d = 0 THEN PosInf
    ELSE IF q.n = 0 THEN FAbs(p)
    ELSE IF p.n = 0 THEN FAbs(q)
    ELSE IF /\ MulFits(p.n, p.n) /\ MulFits(q.n, q.n)
            /\ p.d <= 32768 /\ q.d <= 32768
            /\ MulFits(p.n * p.n, q.d * q.d) /\ MulFits(q.n * q.n, p.d * p.d)
            /\ Abs(p.n * p.n * ((q.d * q.d) \div Gcd(p.d * p.d, q.d * q.d)))
                  <= 2147483647 - Abs(q.n * q.n * ((p.d * p.d) \div Gcd(p.d * p.d, q.d * q.d)))
         THEN F64Sqrt(FAdd(FMul(p, p), FMul(q, q)))
    ELSE ScaledRoot(p, q, 13 - Max(Log2Floor(FAbs(p)), Log2Floor(FAbs(q))))

\* d is a power of two
RECURSIVE IsPow2(_)
IsPow2(d) == d = 1 \/ (d > 1 /\ d % 2 = 0 /\ IsPow2(d \div 2))

\* quotient qr[1] and remainder qr[2] of a division by d, to the nearest
\* integer, ties to even; s < 0 marks a quotient that was cut already
NearestEven(qr, d, s) ==
    IF s >= 0 /\ (2 * qr[2] > d \/ (2 * qr[2] = d /\ qr[1] % 2 = 1))
    THEN qr[1] + 1
    ELSE qr[1]

\* x rounded to the nearest multiple of 2^-s
RoundAt(x, s) ==
    Dyadic(Sign(x.n) * NearestEven(ShiftDiv(Abs(x.n), x.d, s), x.d, s), -s)

\* `x as f32`: x rounded to the nearest value of 24 significant bits, ties
\* to even
as_f32(x) ==
    IF x.d = 0 \/ x.n = 0 THEN x
    ELSE IF IsPow2(x.d) /\ Abs(x.n) < 16777216 THEN x
    ELSE RoundAt(x, Min(30, 23 - Log2Floor(FAbs(x))))

\* the float fa is smaller than the float fb, both positive
FloatBelow(fa, fb) == fa.e < fb.e \/ (fa.e = fb.e /\ fa.m < fb.m)

\* the cross products that compare finite a and b fit, g being the common
\* factor of the denominators
LtExact(a, b, g) == MulFits(a.n, b.d \div g) /\ MulFits(b.n, a.d \div g)

\* f64 `a < b`; every comparison with NaN is false
F64Lt(a, b) ==
    IF a.d = 0 \/ b.d = 0 \/ LtExact(a, b, Gcd(a.d, b.d)) THEN FLt(a, b)
    ELSE IF Sign(a.n) # Sign(b.n) THEN a.n < b.n
    ELSE IF a.n > 0 THEN FloatBelow(ToFloat(FAbs(a)), ToFloat(FAbs(b)))
    ELSE FloatBelow(ToFloat(FAbs(b)), ToFloat(FAbs(a)))

F64Gt(a, b) == F64Lt(b, a)

F64Le(a, b) == ~IsNaN(a) /\ ~IsNaN(b) /\ ~F64Lt(b, a)

\* iter().sum::<f64>()
RECURSIVE F64Sum(_)
F64Sum(s) ==
    IF s = <<>> THEN Zero ELSE F64Add(F64Sum(SubSeq(s, 1, Len(s) - 1)), s[Len(s)])

\* std::f64::consts::PI and its fractions
PI == Q(355, 113)
HalfPi == Q(355, 226)
QuarterPi == Q(355, 452)

\* f64::to_radians: x * (PI / 180)
to_radians(x) == F64Mul(x, Q(71, 4068))

\* the whole steps of 2^-22 in deg >= 0
GridSteps(deg) == ShiftDiv(deg.n, deg.d, 22)[1]

\* f64::to_degrees: x * (180 / PI), kept on the grid of 2^-22 degree; a
\* non-zero angle stays non-zero
to_degrees(x) ==
    IF x.d = 0 \/ x.n = 0 THEN x
    ELSE Q(Sign(x.n) * Max(1, GridSteps(FAbs(F64Mul(x, Q(4068, 71))))), 4194304)

\* x^3
Cube(x) == F64Mul(x, F64Mul(x, x))

\* x^5 from x and x^3
Fifth(x, x3) == F64Mul(F64Mul(x, x), x3)

\* x - x^3/6 + x^5/120 from x and x^3
sin_terms(x, x3) ==
    F64Add(F64Sub(x, F64Div(x3, FromInt(6))), F64Div(Fifth(x, x3), FromInt(120)))

\* sin on [0, PI/4]: x - x^3/6 + x^5/120
sin_series(x) == sin_terms(x, Cube(x))

\* 1 - x^2/2 + x^4/24 from x^2
cos_terms(x2) ==
    F64Add(F64Sub(One, F64Div(x2, FromInt(2))), F64Div(F64Mul(x2, x2), FromInt(24)))

\* cos on [0, PI/4]: 1 - x^2/2 + x^4/24
cos_series(x) == cos_terms(F64Mul(x, x))

\* sin on [0, PI/2]
sin_quarter_turn(y) ==
    IF F64Lt(QuarterPi, y) THEN cos_series(F64Sub(HalfPi, y)) ELSE sin_series(y)

\* sin on [0, PI]: sin x = sin(PI - x)
sin_half_turn(x) ==
    sin_quarter_turn(IF F64Lt(HalfPi, x) THEN F64Sub(PI, x) ELSE x)

\* v, negated when flip holds
Flip(flip, v) == IF flip THEN FNeg(v) ELSE v

\* sin on [0, 2 PI]: sin x = -sin(x - PI)
sin_turn(x) ==
    Flip(F64Lt(PI, x), sin_half_turn(IF F64Lt(PI, x) THEN F64Sub(x, PI) ELSE x))

\* x >= 0 less its whole turns
RECURSIVE reduce_turns(_)
reduce_turns(x) ==
    IF F64Lt(Q(710, 113), x) THEN reduce_turns(F64Sub(x, Q(710, 113))) ELSE x

\* sin of x >= 0
sin_positive(x) == sin_turn(reduce_turns(x))

\* f64::sin
sin(x) == IF x.d = 0 THEN NaN ELSE Flip(x.n < 0, sin_positive(FAbs(x)))

\* f64::cos
cos(x) == IF x.d = 0 THEN NaN ELSE sin(F64Add(FAbs(x), HalfPi))

\* x + x^3/6 + 3 x^5/40 from x and x^3
asin_terms(x, x3) ==
    F64Add(F64Add(x, F64Div(x3, FromInt(6))),
           F64Div(F64Mul(FromInt(3), Fifth(x, x3)), FromInt(40)))

\* f64::asin: NaN outside [-1, 1]; x + x^3/6 + 3 x^5/40
asin(x) ==
    IF IsNaN(x) \/ F64Lt(One, FAbs(x)) THEN NaN ELSE asin_terms(x, Cube(x))

\* t - t^3/3 + t^5/5 from t and t^3
atan_terms(t, t3) ==
    F64Add(F64Sub(t, F64Div(t3, FromInt(3))), F64Div(Fifth(t, t3), FromInt(5)))

\* atan on [0, 1/2]: t - t^3/3 + t^5/5
atan_series(t) == atan_terms(t, Cube(t))

\* v when keep holds, else its complement in whole
Complement(keep, whole, v) == IF keep THEN v ELSE F64Sub(whole, v)

\* atan on [0, 1]: atan t = PI/4 - atan((1 - t) / (1 + t))
atan_unit(t) ==
    Complement(F64Le(t, Q(1, 2)), QuarterPi,
               atan_series(IF F64Le(t, Q(1, 2)) THEN t
                           ELSE F64Div(F64Sub(One, t), F64Add(One, t))))

\* atan(ay / ax) of finite ay > 0 and ax > 0: atan(1/t) = PI/2 - atan t
atan_ratio(ay, ax) ==
    Complement(F64Le(ay, ax), HalfPi,
               atan_unit(IF F64Le(ay, ax) THEN F64Div(ay, ax) ELSE F64Div(ax, ay)))

\* the angle of (ax, ay) in the first quadrant, ax >= 0 and ay >= 0
first_quadrant(ay, ax) ==
    IF ay.d = 0 /\ ax.d = 0 THEN QuarterPi
    ELSE IF ay.d = 0 THEN HalfPi
    ELSE IF ax.d = 0 \/ ay.n = 0 THEN Zero
    ELSE atan_ratio(ay, ax)

\* f64::atan2 (self = y, other = x), in (-PI, PI]
atan2(y, x) ==
    IF IsNaN(y) \/ IsNaN(x) THEN NaN
    ELSE Flip(y.n < 0, Complement(x.n >= 0, PI, first_quadrant(FAbs(y), FAbs(x))))

(***************************************************************************)
(* VectorAnalyzer, infrastructure/geo/vector_analysis.rs.  A sample is     *)
(* <<x, y, value>>, a point <<x, y>>, a polygon a record of its rings.     *)
(***************************************************************************)
\* DomainError::geo_processing(msg)
geo_processing(msg) == [ok |-> FALSE, kind |-> "GeoProcessing", msg |-> msg]

\* metres per degree, the literal 111_320.0
MetersPerDegree == FromInt(111320)

\* the filter with equality admitted
exceeds_or_equals(v, threshold) == FLe(threshold, v)

\* the filter closure of calculate_intrusion_vector: *v > threshold
exceeds(v, threshold) == FGt(v, threshold)

\* peak_points_t1 / peak_points_t2
peak_points(salinity, threshold) ==
    SelectSeq(salinity, LAMBDA s : exceeds(s[3], threshold))

\* iter().sum::<f32>(): every partial sum is rounded to f32
RECURSIVE F32Sum(_)
F32Sum(s) ==
    IF s = <<>> THEN Zero
    ELSE as_f32(FAdd(F32Sum(SubSeq(s, 1, Len(s) - 1)), s[Len(s)]))

\* the centroid without the zero-weight return
calculate_weighted_centroid_unguarded(points) ==
    LET total_weight == F32Sum([i \in 1..Len(points) |-> points[i][3]])
        weighted_x == F64Sum([i \in 1..Len(points) |-> F64Mul(points[i][1], points[i][3])])
        weighted_y == F64Sum([i \in 1..Len(points) |-> F64Mul(points[i][2], points[i][3])])
    IN  <<F64Div(weighted_x, total_weight), F64Div(weighted_y, total_weight)>>

\* VectorAnalyzer::calculate_weighted_centroid
calculate_weighted_centroid(points) ==
    LET total_weight == F32Sum([i \in 1..Len(points) |-> points[i][3]])
        weighted_x == F64Sum([i \in 1..Len(points) |-> F64Mul(points[i][1], points[i][3])])
        weighted_y == F64Sum([i \in 1..Len(points) |-> F64Mul(points[i][2], points[i][3])])
    IN  IF total_weight = Zero THEN <<Zero, Zero>>
        ELSE <<F64Div(weighted_x, total_weight), F64Div(weighted_y, total_weight)>>

\* direction_normalized
normalize_direction(direction_degrees) ==
    IF F64Lt(direction_degrees, Zero) THEN F64Add(direction_degrees, FromInt(360))
    ELSE direction_degrees

\* the IntrusionVector of calculate_intrusion_vector, from its centroids,
\* direction_normalized and magnitude_meters
intrusion_vector_of(centroid_t1, centroid_t2, direction_normalized, magnitude_meters, days_between) ==
    [direction_degrees |-> as_f32(direction_normalized),
     magnitude_meters |-> as_f32(magnitude_meters),
     velocity_m_per_day |-> as_f32(IF FGt(days_between, Zero)
                                   THEN F64Div(magnitude_meters, days_between)
                                   ELSE Zero),
     start_point |-> <<centroid_t1[1], centroid_t1[2]>>,
     end_point |-> <<centroid_t2[1], centroid_t2[2]>>]

\* calculate_intrusion_vector from dx and dy on
vector_along(centroid_t1, centroid_t2, dx, dy, days_between) ==
    intrusion_vector_of(centroid_t1, centroid_t2,
                        normalize_direction(to_degrees(atan2(dy, dx))),
                        F64Mul(sqrt_sum_squares(dx, dy), MetersPerDegree),
                        days_between)

\* calculate_intrusion_vector from its two centroids on
vector_between(centroid_t1, centroid_t2, days_between) ==
    vector_along(centroid_t1, centroid_t2,
                 F64Sub(centroid_t2[1], centroid_t1[1]),
                 F64Sub(centroid_t2[2], centroid_t1[2]), days_between)

\* calculate_intrusion_vector from its peak points on
vector_of_peaks(peak_points_t1, peak_points_t2, days_between) ==
    IF peak_points_t1 = <<>> \/ peak_points_t2 = <<>>
    THEN Ok(None)
    ELSE Ok(Some(vector_between(calculate_weighted_centroid(peak_points_t1),
                                calculate_weighted_centroid(peak_points_t2),
                                days_between)))

\* VectorAnalyzer::calculate_intrusion_vector
calculate_intrusion_vector(salinity_t1, salinity_t2, threshold, days_between) ==
    vector_of_peaks(peak_points(salinity_t1, threshold),
                    peak_points(salinity_t2, threshold), days_between)

\* geo::LineString::close, as Polygon::new applies it to the exterior: the
\* first point is repeated at the end unless it is there already
closed_ring(ring) ==
    IF ring = <<>> \/ ring[1] = ring[Len(ring)] THEN ring ELSE Append(ring, ring[1])

\* x1 * y2 - x2 * y1
cross(p, q) == F64Sub(F64Mul(p[1], q[2]), F64Mul(q[1], p[2]))

\* twice the signed area of a closed ring (geo::Area::signed_area)
twice_signed_area(ring) ==
    F64Sum([i \in 1..(Len(ring) - 1) |-> cross(ring[i], ring[i + 1])])

\* point p relative to the point shift
shifted(p, shift) == <<F64Sub(p[1], shift[1]), F64Sub(p[2], shift[2])>>

\* geo's twice_signed_ring_area: zero for a ring of fewer than 3 points;
\* otherwise the sum of the determinants of the segments, every coordinate
\* taken relative to the first point of the ring
twice_signed_ring_area(ring) ==
    IF Len(ring) < 3 THEN Zero
    ELSE F64Sum([i \in 1..(Len(ring) - 1) |->
                    cross(shifted(ring[i], ring[1]), shifted(ring[i + 1], ring[1]))])

\* geo::Area::unsigned_area of the polygon of an exterior ring
unsigned_area(exterior) ==
    F64Div(FAbs(twice_signed_ring_area(closed_ring(exterior))), FromInt(2))

\* the length of the segment from p to q
segment_length(p, q) == sqrt_sum_squares(F64Sub(q[1], p[1]), F64Sub(q[2], p[2]))

\* the area-weighted centroid of a closed ring of twice the signed area a2
area_centroid(ring, a2) ==
    [axis \in 1..2 |->
        F64Div(F64Sum([i \in 1..(Len(ring) - 1) |->
                          F64Mul(F64Add(ring[i][axis], ring[i + 1][axis]),
                                 cross(ring[i], ring[i + 1]))]),
               F64Mul(FromInt(3), a2))]

\* the length-weighted centroid of the segments of a closed ring
line_centroid(ring, length) ==
    [axis \in 1..2 |->
        F64Div(F64Sum([i \in 1..(Len(ring) - 1) |->
                          F64Mul(F64Div(F64Add(ring[i][axis], ring[i + 1][axis]), FromInt(2)),
                                 segment_length(ring[i], ring[i + 1]))]),
               length)]

\* the centroid of a closed ring that is not empty, of twice the signed
\* area a2 and of the given length
ring_centroid(ring, a2, length) ==
    IF a2 # Zero THEN area_centroid(ring, a2)
    ELSE IF length # Zero THEN line_centroid(ring, length)
    ELSE ring[1]

\* the summed length of the segments of a closed ring
ring_length(ring) ==
    F64Sum([i \in 1..(Len(ring) - 1) |-> segment_length(ring[i], ring[i + 1])])

\* the centroid of a closed ring
closed_ring_centroid(ring) ==
    IF ring = <<>> THEN None
    ELSE Some(ring_centroid(ring, twice_signed_area(ring), ring_length(ring)))

\* geo::Centroid::centroid of the polygon of an exterior ring: nothing for
\* an empty ring; the area-weighted centroid when the area is not zero; else
\* the length-weighted centroid of the ring's segments; else its one point
geo_centroid(exterior) == closed_ring_centroid(closed_ring(exterior))

\* the result of polygon_centroid from geo's centroid: that centroid, or
\* the mean of the vertices
centroid_or_mean(centroid, exterior) ==
    IF centroid.some THEN Ok(centroid.value)
    ELSE Ok(<<F64Div(F64Sum([i \in 1..Len(exterior) |-> exterior[i][1]]),
                     FromInt(Len(exterior))),
              F64Div(F64Sum([i \in 1..Len(exterior) |-> exterior[i][2]]),
                     FromInt(Len(exterior)))>>)

\* VectorAnalyzer::polygon_centroid
polygon_centroid(polygon) ==
    IF polygon.coordinates = <<>> \/ polygon.coordinates[1] = <<>>
    THEN geo_processing("Empty polygon")
    ELSE centroid_or_mean(geo_centroid(polygon.coordinates[1]), polygon.coordinates[1])

\* the mean radius of the earth in metres, the constant R
R == FromInt(6371000)

\* VectorAnalyzer::haversine_distance.  The root of
\*   a = sin(delta_phi / 2)^2 + cos(phi1) * cos(phi2) * sin(delta_lambda / 2)^2
\* is taken as the root of the sum of the squares of sin(delta_phi / 2) and
\* sqrt(cos(phi1) * cos(phi2)) * sin(delta_lambda / 2): a itself is about 1e-9
\* at the distances of the risk bands.
haversine_distance(lat1, lon1, lat2, lon2) ==
    LET phi1 == to_radians(lat1)
        phi2 == to_radians(lat2)
        delta_phi == to_radians(F64Sub(lat2, lat1))
        delta_lambda == to_radians(F64Sub(lon2, lon1))
        s1 == sin(F64Div(delta_phi, FromInt(2)))
        s2 == sin(F64Div(delta_lambda, FromInt(2)))
        sqrt_a == sqrt_sum_squares(s1, F64Mul(F64Sqrt(F64Mul(cos(phi1), cos(phi2))), s2))
        c == F64Mul(FromInt(2), asin(sqrt_a))
    IN  as_f32(F64Mul(R, c))

\* the ladder with its bounds included
risk_level_of_inclusive(distance_to_farm) ==
    IF F64Le(distance_to_farm, FromInt(500)) THEN "Critical"
    ELSE IF F64Le(distance_to_farm, FromInt(1000)) THEN "High"
    ELSE IF F64Le(distance_to_farm, FromInt(2000)) THEN "Medium"
    ELSE "Low"

\* risk_level of predict_affected_area
risk_level_of(distance_to_farm) ==
    IF F64Lt(distance_to_farm, FromInt(500)) THEN "Critical"
    ELSE IF F64Lt(distance_to_farm, FromInt(1000)) THEN "High"
    ELSE IF F64Lt(distance_to_farm, FromInt(2000)) THEN "Medium"
    ELSE "Low"

\* the PredictionResult of predict_affected_area
prediction_result(predicted_center, distance_to_farm, days_to_reach) ==
    [predicted_center |-> predicted_center,
     distance_to_farm_m |-> distance_to_farm,
     risk_level |-> risk_level_of(distance_to_farm),
     days_to_reach |-> days_to_reach]

\* days_to_reach of predict_affected_area
days_to_reach_of(velocity_m_per_day, current_distance) ==
    IF FGt(velocity_m_per_day, Zero)
    THEN Some(as_f32(F64Div(current_distance, velocity_m_per_day)))
    ELSE None

\* predict_affected_area from predicted_center and farm_centroid on
prediction_at(intrusion_vector, predicted_center, farm_centroid) ==
    prediction_result(
        predicted_center,
        haversine_distance(predicted_center[2], predicted_center[1],
                           farm_centroid[2], farm_centroid[1]),
        days_to_reach_of(
            intrusion_vector.velocity_m_per_day,
            haversine_distance(intrusion_vector.end_point[2], intrusion_vector.end_point[1],
                               farm_centroid[2], farm_centroid[1])))

\* predicted_center of predict_affected_area
predicted_center_of(end_point, displacement_degrees, direction_rad) ==
    <<F64Add(end_point[1], F64Mul(displacement_degrees, cos(direction_rad))),
      F64Add(end_point[2], F64Mul(displacement_degrees, sin(direction_rad)))>>

\* displacement_degrees of predict_affected_area, in f32
displacement_degrees_of(velocity_m_per_day, days_ahead) ==
    as_f32(F64Div(as_f32(F64Mul(velocity_m_per_day, days_ahead)), MetersPerDegree))

\* predict_affected_area once polygon_centroid has returned
prediction_for(intrusion_vector, farm_centroid, days_ahead) ==
    IF ~farm_centroid.ok THEN farm_centroid
    ELSE Ok(prediction_at(
                intrusion_vector,
                predicted_center_of(
                    intrusion_vector.end_point,
                    displacement_degrees_of(intrusion_vector.velocity_m_per_day, days_ahead),
                    to_radians(intrusion_vector.direction_degrees)),
                farm_centroid.value))

\* VectorAnalyzer::predict_affected_area
predict_affected_area(intrusion_vector, farm_geometry, days_ahead) ==
    prediction_for(intrusion_vector, polygon_centroid(farm_geometry), days_ahead)

\* the area with an error for the polygons it cannot measure
calculate_polygon_area_checked(polygon) ==
    IF polygon.coordinates = <<>> \/ Len(polygon.coordinates[1]) < 3
    THEN geo_processing("Empty polygon")
    ELSE Ok(F64Div(F64Mul(F64Mul(unsigned_area(polygon.coordinates[1]), MetersPerDegree),
                          MetersPerDegree),
                   FromInt(10000)))

\* VectorAnalyzer::calculate_polygon_area
calculate_polygon_area(polygon) ==
    IF polygon.coordinates = <<>> \/ Len(polygon.coordinates[1]) < 3
    THEN Ok(Zero)
    ELSE LET area_deg2 == unsigned_area(polygon.coordinates[1])
             area_m2 == F64Mul(F64Mul(area_deg2, MetersPerDegree), MetersPerDegree)
             area_hectares == F64Div(area_m2, FromInt(10000))
         IN  Ok(area_hectares)

\* the for loop of the handler's calculate_area from index i on (0-based,
\* j = (i + 1) % n): `area += xi * yj; area -= xj * yi`
RECURSIVE shoelace(_, _, _)
shoelace(coords, i, area) ==
    IF i >= Len(coords) THEN area
    ELSE shoelace(coords, i + 1,
                  F64Sub(F64Add(area, F64Mul(coords[i + 1][1],
                                             coords[((i + 1) % Len(coords)) + 1][2])),
                         F64Mul(coords[((i + 1) % Len(coords)) + 1][1], coords[i + 1][2])))

\* api/handlers/farm.rs, calculate_area: the hectares stored with a farm
calculate_area(polygon) ==
    IF polygon.coordinates = <<>> \/ Len(polygon.coordinates[1]) < 3 THEN Zero
    ELSE F64Div(F64Mul(F64Mul(FAbs(F64Div(shoelace(polygon.coordinates[1], 0, Zero),
                                          FromInt(2))),
                              MetersPerDegree),
                       MetersPerDegree),
                FromInt(10000))

\* the edge test with both operands evaluated
edge_test_eager(point, xi, yi, xj, yj) ==
    [toggles |-> /\ FGt(yi, point[2]) # FGt(yj, point[2])
                 /\ FLt(point[1],
                        FAdd(FDiv(FMul(FSub(xj, xi), FSub(point[2], yi)), FSub(yj, yi)), xi)),
     divisors |-> <<FSub(yj, yi)>>]

\* the condition of the ray-casting loop for one edge: whether inside is
\* toggled, and the divisors the evaluation divided by.  `&&` evaluates its
\* right operand, and the division in it, only when the left one is true.
edge_test(point, xi, yi, xj, yj) ==
    IF FGt(yi, point[2]) # FGt(yj, point[2])
    THEN [toggles |-> FLt(point[1],
                          FAdd(FDiv(FMul(FSub(xj, xi), FSub(point[2], yi)), FSub(yj, yi)), xi)),
          divisors |-> <<FSub(yj, yi)>>]
    ELSE [toggles |-> FALSE, divisors |-> <<>>]

\* the for loop of point_in_polygon from index i on (0-based, j the index
\* before it): the final inside flag and, per edge, the outcome of its test
RECURSIVE ray_cast(_, _, _, _, _, _)
ray_cast(point, coords, i, j, inside, tests) ==
    IF i >= Len(coords) THEN [inside |-> inside, tests |-> tests]
    ELSE LET t == edge_test(point, coords[i + 1][1], coords[i + 1][2],
                            coords[j + 1][1], coords[j + 1][2])
         IN  ray_cast(point, coords, i + 1, i,
                      IF t.toggles THEN ~inside ELSE inside, Append(tests, t))

\* the ray casting without the wrap-around edge: j starts at the first index
point_in_polygon_no_wrap(point, polygon) ==
    IF polygon.coordinates = <<>> THEN [inside |-> FALSE, tests |-> <<>>]
    ELSE IF Len(polygon.coordinates[1]) < 3 THEN [inside |-> FALSE, tests |-> <<>>]
    ELSE ray_cast(point, polygon.coordinates[1], 0, 0, FALSE, <<>>)

\* VectorAnalyzer::point_in_polygon, with the trace of its edge tests
point_in_polygon_traced(point, polygon) ==
    IF polygon.coordinates = <<>> THEN [inside |-> FALSE, tests |-> <<>>]
    ELSE LET coords == polygon.coordinates[1]
             n == Len(coords)
         IN  IF n < 3 THEN [inside |-> FALSE, tests |-> <<>>]
             ELSE ray_cast(point, coords, 0, n - 1, FALSE, <<>>)

\* VectorAnalyzer::point_in_polygon
point_in_polygon(point, polygon) == point_in_polygon_traced(point, polygon).inside

(***************************************************************************)
(* VectorAnalyzer::polygons_intersect and bounding_box.                    *)
(***************************************************************************)
\* f64::MAX and f64::MIN: the largest and the smallest finite value, here
\* those of the model
F64_MAX == Q(2147483647, 1)
F64_MIN == Q(-2147483647, 1)

\* f64::min and f64::max: a NaN operand is ignored
f64_min(a, b) == IF IsNaN(a) THEN b ELSE IF IsNaN(b) THEN a ELSE IF F64Lt(b, a) THEN b ELSE a
f64_max(a, b) == IF IsNaN(a) THEN b ELSE IF IsNaN(b) THEN a ELSE IF F64Lt(a, b) THEN b ELSE a

\* the for loop of bounding_box from coordinate i on (1-based), box being
\* <<min_x, min_y, max_x, max_y>>
RECURSIVE bounding_box_loop(_, _, _)
bounding_box_loop(coords, i, box) ==
    IF i > Len(coords) THEN box
    ELSE bounding_box_loop(coords, i + 1,
                           <<f64_min(box[1], coords[i][1]), f64_min(box[2], coords[i][2]),
                             f64_max(box[3], coords[i][1]), f64_max(box[4], coords[i][2])>>)

\* VectorAnalyzer::bounding_box
bounding_box(coords) == bounding_box_loop(coords, 1, <<F64_MAX, F64_MAX, F64_MIN, F64_MIN>>)

\* the comparison of the boxes with contact at the boundary left out
boxes_overlap_strict(bbox1, bbox2) ==
    /\ F64Lt(bbox1[1], bbox2[3]) /\ F64Lt(bbox2[1], bbox1[3])
    /\ F64Lt(bbox1[2], bbox2[4]) /\ F64Lt(bbox2[2], bbox1[4])

\* the last expression of polygons_intersect
boxes_overlap(bbox1, bbox2) ==
    /\ F64Le(bbox1[1], bbox2[3]) /\ F64Le(bbox2[1], bbox1[3])
    /\ F64Le(bbox1[2], bbox2[4]) /\ F64Le(bbox2[2], bbox1[4])

\* VectorAnalyzer::polygons_intersect
polygons_intersect(p1, p2) ==
    IF p1.coordinates = <<>> \/ p2.coordinates = <<>> THEN FALSE
    ELSE boxes_overlap(bounding_box(p1.coordinates[1]), bounding_box(p2.coordinates[1]))

(***************************************************************************)
(* Inputs of the vector analysis.                                          *)
(***************************************************************************)
\* the most samples of one acquisition
MaxSamples == 2
\* the most points of an exterior ring handed to point_in_polygon
MaxRing == 4

\* the f32 literal 0.3
ThreeTenths == as_f32(Q(3, 10))

\* samples <<x, y, value>>: two that cancel as weights, one displaced east
\* by a degree and south by 2^-24 degree from the first, one whose value is
\* the positive threshold
SampleValues ==
    {<<FromInt(10), FromInt(10), Q(1, 2)>>,
     <<One, FromInt(2), Q(-1, 2)>>,
     <<FromInt(11), Q(167772159, 16777216), One>>,
     <<FromInt(5), FromInt(5), ThreeTenths>>}

\* two samples on the meridian of 11 degrees, of values 0.7 and 0.9 as f32
MeridianSamples ==
    <<<<FromInt(11), FromInt(10), as_f32(Q(7, 10))>>,
      <<FromInt(11), FromInt(12), as_f32(Q(9, 10))>>>>

SampleThresholds == {Q(-1, 1), ThreeTenths}

\* the sample lists of one acquisition
SampleLists == SeqsUpTo(SampleValues, MaxSamples) \cup {MeridianSamples}

DaysBetween == {Zero, FromInt(5)}

Polygon(rings) == [coordinates |-> rings, crs |-> "EPSG:4326"]

\* a farm of 0.01 degree around the origin
FarmSquare ==
    <<<<Q(-1, 200), Q(-1, 200)>>, <<Q(1, 200), Q(-1, 200)>>,
      <<Q(1, 200), Q(1, 200)>>, <<Q(-1, 200), Q(1, 200)>>, <<Q(-1, 200), Q(-1, 200)>>>>

\* farm geometries: no ring, an empty ring, one point, two points, three
\* points on a line, a triangle, the square
FarmGeometries ==
    {Polygon(<<>>), Polygon(<<<<>>>>),
     Polygon(<<<<<<Zero, Zero>>>>>>),
     Polygon(<<<<<<Q(-1, 100), Zero>>, <<Q(1, 100), Zero>>>>>>),
     Polygon(<<<<<<Q(-1, 100), Zero>>, <<Zero, Zero>>, <<Q(1, 100), Zero>>>>>>),
     Polygon(<<<<<<Q(-1, 100), Q(-1, 100)>>, <<Q(2, 100), Q(-1, 100)>>,
                 <<Q(-1, 100), Q(2, 100)>>>>>>),
     Polygon(<<FarmSquare>>)}

\* one degree of latitude is R * PI / 180 metres: 2034/452341 degree is
\* 500 m
Lat500m == Q(2034, 452341)

IntrusionVector(direction, velocity, end_point) ==
    [direction_degrees |-> direction, magnitude_meters |-> Zero,
     velocity_m_per_day |-> velocity, start_point |-> end_point,
     end_point |-> end_point]

\* vectors at rest 111 m, 500 m, 1000 m, 2000 m and 3000 m north of the
\* origin, and one moving south-east at 100 m a day
IntrusionVectors ==
    {IntrusionVector(Zero, Zero, <<Zero, F64Mul(k, Lat500m)>>) :
        k \in {Q(2, 9), One, FromInt(2), FromInt(4), FromInt(6)}}
    \cup {IntrusionVector(FromInt(315), FromInt(100), <<Q(-1, 100), Q(1, 100)>>)}

DaysAhead == {Zero, FromInt(7)}

\* a field of 0.001 degree at 106.5 E, 10.5 N, its ring left open
FieldSquare ==
    <<<<Q(1065, 10), Q(105, 10)>>, <<Q(106501, 1000), Q(105, 10)>>,
      <<Q(106501, 1000), Q(10501, 1000)>>, <<Q(1065, 10), Q(10501, 1000)>>>>

\* the geometries a farm is created with
CreatedGeometries == FarmGeometries \cup {Polygon(<<FieldSquare>>)}

\* ring vertices and query points of point_in_polygon
RingVertices ==
    {<<Zero, Zero>>, <<FromInt(2), Zero>>, <<FromInt(2), FromInt(2)>>,
     <<Zero, FromInt(2)>>, <<One, One>>}

QueryPoints ==
    {<<One, One>>, <<One, Zero>>, <<One, FromInt(2)>>, <<FromInt(3), One>>,
     <<Q(1, 2), Q(3, 2)>>}

RingPolygons ==
    {Polygon(<<>>)} \cup {Polygon(<<r>>) : r \in SeqsUpTo(RingVertices, MaxRing)}

\* the most points of an exterior ring handed to polygons_intersect
MaxBoxRing == 2

\* vertices of the rings of polygons_intersect
BoxVertices ==
    {<<Zero, Zero>>, <<One, One>>, <<FromInt(2), FromInt(2)>>, <<FromInt(3), Q(1, 2)>>}

\* polygons of polygons_intersect: no ring, and every exterior ring of up to
\* MaxBoxRing vertices, the empty one included
BoxPolygons ==
    {Polygon(<<>>)} \cup {Polygon(<<r>>) : r \in SeqsUpTo(BoxVertices, MaxBoxRing)}

(***************************************************************************)
(* The vector analysis as a state machine: a call, then its return.        *)
(***************************************************************************)
InitVector ==
    /\ analyzer = new
    /\ tasks = <<>>
    /\ shared = <<>>
    /\ op = "idle"
    /\ args = <<>>
    /\ ret = <<>>

CalculateIntrusionVector ==
    /\ op = "idle"
    /\ \E salinity_t1 \in SampleLists, salinity_t2 \in SampleLists,
          threshold \in SampleThresholds, days_between \in DaysBetween :
          /\ op' = "calculate_intrusion_vector"
          /\ args' = <<salinity_t1, salinity_t2, threshold, days_between>>
          /\ ret' = calculate_intrusion_vector(salinity_t1, salinity_t2,
                                               threshold, days_between)
    /\ UNCHANGED <<analyzer, tasks, shared>>

PredictAffectedArea ==
    /\ op = "idle"
    /\ \E intrusion_vector \in IntrusionVectors, farm_geometry \in FarmGeometries,
          days_ahead \in DaysAhead :
          /\ op' = "predict_affected_area"
          /\ args' = <<intrusion_vector, farm_geometry, days_ahead>>
          /\ ret' = predict_affected_area(intrusion_vector, farm_geometry, days_ahead)
    /\ UNCHANGED <<analyzer, tasks, shared>>

CalculatePolygonArea ==
    /\ op = "idle"
    /\ \E polygon \in FarmGeometries :
          /\ op' = "calculate_polygon_area"
          /\ args' = <<polygon>>
          /\ ret' = calculate_polygon_area(polygon)
    /\ UNCHANGED <<analyzer, tasks, shared>>

\* the result is kept with the trace of the edge tests that produced it
PointInPolygon ==
    /\ op = "idle"
    /\ \E point \in QueryPoints, polygon \in RingPolygons :
          /\ op' = "point_in_polygon"
          /\ args' = <<point, polygon>>
          /\ ret' = point_in_polygon_traced(point, polygon)
    /\ UNCHANGED <<analyzer, tasks, shared>>

\* create_farm computes the area of the request's geometry
CalculateArea ==
    /\ op = "idle"
    /\ \E polygon \in CreatedGeometries :
          /\ op' = "calculate_area"
          /\ args' = <<polygon>>
          /\ ret' = calculate_area(polygon)
    /\ UNCHANGED <<analyzer, tasks, shared>>

PolygonsIntersect ==
    /\ op = "idle"
    /\ \E p1 \in BoxPolygons, p2 \in BoxPolygons :
          /\ op' = "polygons_intersect"
          /\ args' = <<p1, p2>>
          /\ ret' = polygons_intersect(p1, p2)
    /\ UNCHANGED <<analyzer, tasks, shared>>

NextVector ==
    \/ CalculateIntrusionVector
    \/ PredictAffectedArea
    \/ CalculatePolygonArea
    \/ PointInPolygon
    \/ PolygonsIntersect
    \/ CalculateArea
    \/ Return

SpecVector == InitVector /\ [][NextVector]_vars

(***************************************************************************)
(* Claims about the vector analysis.                                       *)
(***************************************************************************)
\* the samples whose value is strictly above the threshold
StrictlyAbove(salinity, threshold) ==
    SelectSeq(salinity, LAMBDA s : FLt(threshold, s[3]))

\* the sum of the weights of samples, accumulated in f32
WeightSum(points) == F32Sum([i \in 1..Len(points) |-> points[i][3]])

\* the weighted mean position of samples, (0, 0) for a zero weight sum
WeightedMean(points) ==
    IF WeightSum(points) = Zero THEN <<Zero, Zero>>
    ELSE <<F64Div(F64Sum([i \in 1..Len(points) |-> F64Mul(points[i][1], points[i][3])]),
                  WeightSum(points)),
           F64Div(F64Sum([i \in 1..Len(points) |-> F64Mul(points[i][2], points[i][3])]),
                  WeightSum(points))>>

\* C15: calculate_intrusion_vector succeeds with None exactly when one of
\* the two sample sets has no sample strictly above the threshold (a value
\* equal to it does not count); otherwise it returns a vector from the
\* weighted centroid of the filtered t1 samples to that of the filtered t2
\* samples.
C15_NoneIffNoPeak ==
    op = "calculate_intrusion_vector" =>
        LET peaks_t1 == StrictlyAbove(args[1], args[3])
            peaks_t2 == StrictlyAbove(args[2], args[3])
        IN  /\ ret.ok
            /\ ret.value = None <=> (peaks_t1 = <<>> \/ peaks_t2 = <<>>)
            /\ ret.value # None =>
                  /\ ret.value.value.start_point = WeightedMean(peaks_t1)
                  /\ ret.value.value.end_point = WeightedMean(peaks_t2)

\* None although t1 holds a sample, one whose value equals the threshold,
\* and t2 holds a sample above it
C15_Witness ==
    /\ op = "calculate_intrusion_vector"
    /\ ret = Ok(None)
    /\ \E i \in 1..Len(args[1]) : args[1][i][3] = args[3]
    /\ StrictlyAbove(args[2], args[3]) # <<>>

\* no component of an intrusion vector is NaN
NoNaN(v) ==
    /\ ~IsNaN(v.direction_degrees)
    /\ ~IsNaN(v.magnitude_meters)
    /\ ~IsNaN(v.velocity_m_per_day)
    /\ \A i \in 1..2 : ~IsNaN(v.start_point[i]) /\ ~IsNaN(v.end_point[i])

\* C16: when the weights of a filtered sample set sum to zero, its centroid
\* is exactly (0, 0), nothing is divided by the zero total, and the vector
\* returned has no NaN component.
C16_ZeroWeightCentroid ==
    (op = "calculate_intrusion_vector" /\ ret.ok /\ ret.value # None) =>
        LET peaks_t1 == StrictlyAbove(args[1], args[3])
            peaks_t2 == StrictlyAbove(args[2], args[3])
            v == ret.value.value
        IN  /\ WeightSum(peaks_t1) = Zero => v.start_point = <<Zero, Zero>>
            /\ WeightSum(peaks_t2) = Zero => v.end_point = <<Zero, Zero>>
            /\ (WeightSum(peaks_t1) = Zero \/ WeightSum(peaks_t2) = Zero) => NoNaN(v)

\* a vector out of t1 samples of weights 1/2 and -1/2, kept by the
\* threshold -1
C16_Witness ==
    /\ op = "calculate_intrusion_vector"
    /\ ret.ok /\ ret.value # None
    /\ args[3] = Q(-1, 1)
    /\ Len(StrictlyAbove(args[1], args[3])) = 2
    /\ WeightSum(StrictlyAbove(args[1], args[3])) = Zero
    /\ WeightSum(StrictlyAbove(args[2], args[3])) # Zero

\* C17: direction_degrees of every intrusion vector lies in [0, 360): it is
\* never negative and never equal to 360.
C17_DirectionRange ==
    (op = "calculate_intrusion_vector" /\ ret.ok /\ ret.value # None) =>
        /\ FLe(Zero, ret.value.value.direction_degrees)
        /\ FLt(ret.value.value.direction_degrees, FromInt(360))

\* the rank of a risk level
RiskRank(level) ==
    CASE level = "Low" -> 0
      [] level = "Medium" -> 1
      [] level = "High" -> 2
      [] level = "Critical" -> 3

\* distances around the bounds of the bands
BandDistances ==
    {FromInt(k) : k \in {0, 499, 500, 501, 999, 1000, 1001, 1999, 2000, 2001, 100000}}

\* C18: predict_affected_area returns Critical iff distance_to_farm_m < 500,
\* High iff 500 <= d < 1000, Medium iff 1000 <= d < 2000 and Low iff
\* d >= 2000 (500 is High, 1000 Medium, 2000 Low), and the risk never rises
\* with the distance.
C18_RiskBands ==
    (op = "predict_affected_area" /\ ret.ok) =>
        LET d == ret.value.distance_to_farm_m
            level == ret.value.risk_level
        IN  /\ level = "Critical" <=> F64Lt(d, FromInt(500))
            /\ level = "High" <=> (F64Le(FromInt(500), d) /\ F64Lt(d, FromInt(1000)))
            /\ level = "Medium" <=> (F64Le(FromInt(1000), d) /\ F64Lt(d, FromInt(2000)))
            /\ level = "Low" <=> F64Le(FromInt(2000), d)
            /\ \A e \in BandDistances :
                  /\ F64Le(d, e) => RiskRank(level) >= RiskRank(risk_level_of(e))
                  /\ F64Le(e, d) => RiskRank(risk_level_of(e)) >= RiskRank(level)

\* a farm exactly 500 m from the predicted centre, rated High
C18_Witness ==
    /\ op = "predict_affected_area"
    /\ ret.ok
    /\ ret.value.distance_to_farm_m = FromInt(500)
    /\ ret.value.risk_level = "High"

\* a polygon with no ring, with an empty exterior ring, or with fewer than
\* 3 vertices
IsDegenerate(polygon) ==
    \/ polygon.coordinates = <<>>
    \/ Len(polygon.coordinates[1]) < 3

\* C19: for a polygon with no rings, an empty exterior ring or fewer than 3
\* vertices, predict_affected_area and calculate_polygon_area return a
\* DegenerateGeometry error and never a success value.
C19_DegenerateGeometryError ==
    /\ (op = "predict_affected_area" /\ IsDegenerate(args[2])) =>
          (~ret.ok /\ ret.kind = "DegenerateGeometry")
    /\ (op = "calculate_polygon_area" /\ IsDegenerate(args[1])) =>
          (~ret.ok /\ ret.kind = "DegenerateGeometry")

\* C19, as the code has it: for a polygon with no rings or an empty exterior
\* ring predict_affected_area returns the GeoProcessing error "Empty
\* polygon" and no result; for an exterior ring of 1 or 2 vertices it
\* succeeds; calculate_polygon_area returns the success value 0 for every
\* polygon with no rings or fewer than 3 vertices.
C19_EmptyPolygonErrorAndZeroArea ==
    /\ op = "predict_affected_area" =>
          IF args[2].coordinates = <<>> \/ args[2].coordinates[1] = <<>>
          THEN ret = [ok |-> FALSE, kind |-> "GeoProcessing", msg |-> "Empty polygon"]
          ELSE ret.ok
    /\ (op = "calculate_polygon_area" /\ IsDegenerate(args[1])) => ret = Ok(Zero)

\* a prediction for a farm of two vertices
C19_Witness ==
    /\ op = "predict_affected_area"
    /\ args[2].coordinates # <<>>
    /\ Len(args[2].coordinates[1]) = 2
    /\ ret.ok

\* the edges of the ring of the call: <<i, j>>, 1-based, j before i
CallEdges ==
    IF args[2].coordinates = <<>> \/ Len(args[2].coordinates[1]) < 3 THEN {}
    ELSE LET n == Len(args[2].coordinates[1])
         IN  {<<i, IF i = 1 THEN n ELSE i - 1>> : i \in 1..n}

\* C20: in the ray-casting loop of point_in_polygon an edge with yj = yi
\* never toggles inside and never has the division by (yj - yi) evaluated,
\* so that nothing is ever divided by zero.
C20_HorizontalEdgeSkipped ==
    op = "point_in_polygon" =>
        /\ Len(ret.tests) = Cardinality(CallEdges)
        /\ \A e \in CallEdges :
              LET coords == args[2].coordinates[1]
              IN  coords[e[1]][2] = coords[e[2]][2] =>
                      /\ ~ret.tests[e[1]].toggles
                      /\ ret.tests[e[1]].divisors = <<>>
        /\ \A i \in 1..Len(ret.tests) :
              \A k \in 1..Len(ret.tests[i].divisors) : ret.tests[i].divisors[k] # Zero

\* a point found inside a ring that has a horizontal edge
C20_Witness ==
    /\ op = "point_in_polygon"
    /\ ret.inside
    /\ \E e \in CallEdges :
          /\ args[2].coordinates[1][e[1]] # args[2].coordinates[1][e[2]]
          /\ args[2].coordinates[1][e[1]][2] = args[2].coordinates[1][e[2]][2]

(***************************************************************************)
(* C21: polygons_intersect is the overlap of the bounding boxes.           *)
(***************************************************************************)
\* the polygon has an exterior ring with a point in it
HasExterior(polygon) == polygon.coordinates # <<>> /\ polygon.coordinates[1] # <<>>

\* the intervals spanned by the rings r1 and r2 on an axis meet, ends included
SpansMeet(r1, r2, axis) ==
    /\ \E i \in 1..Len(r1), j \in 1..Len(r2) : FLe(r1[i][axis], r2[j][axis])
    /\ \E i \in 1..Len(r1), j \in 1..Len(r2) : FLe(r2[j][axis], r1[i][axis])

\* the bounding boxes of the exterior rings of p1 and p2 overlap or touch
BoxesMeet(p1, p2) ==
    /\ SpansMeet(p1.coordinates[1], p2.coordinates[1], 1)
    /\ SpansMeet(p1.coordinates[1], p2.coordinates[1], 2)

\* C21: polygons_intersect(p1, p2) is true exactly when both polygons have a
\* non-empty exterior ring and the bounding boxes of these rings overlap or
\* touch; the result is the same with p1 and p2 exchanged, and it is true
\* whenever the two exterior rings share a vertex.
C21_BoundingBoxOverlap ==
    op = "polygons_intersect" =>
        /\ ret = (HasExterior(args[1]) /\ HasExterior(args[2]) /\ BoxesMeet(args[1], args[2]))
        /\ ret = polygons_intersect(args[2], args[1])
        /\ (/\ HasExterior(args[1]) /\ HasExterior(args[2])
            /\ Range(args[1].coordinates[1]) \cap Range(args[2].coordinates[1]) # {})
           => ret

\* boxes that touch in one corner only, and the call answers true
C21_Witness ==
    /\ op = "polygons_intersect"
    /\ ret
    /\ args[1].coordinates = <<<<<<Zero, Zero>>, <<One, One>>>>>>
    /\ args[2].coordinates = <<<<<<One, One>>, <<FromInt(2), FromInt(2)>>>>>>

(***************************************************************************)
(* C22, C23: mask_to_polygons step by step.                                *)
(***************************************************************************)
\* C22: whatever the interleaving of the steps of the calls in progress,
\* every call that has returned holds the polygons mask_to_polygons yields
\* for its own mask and transform when run alone.
C22_IndependentCalls ==
    \A c \in DOMAIN tasks :
        tasks[c].pc = "done" =>
            tasks[c].polygons = mask_to_polygons(tasks[c].mask, tasks[c].geo_transform)

\* the second call began after the first, and has returned a polygon while
\* the first is still inside trace_polygon
C22_Witness ==
    /\ Len(tasks) = 2
    /\ tasks[1].pc = "trace" /\ tasks[1].boundary # <<>>
    /\ tasks[2].pc = "done" /\ tasks[2].polygons # <<>>

\* pixel p = <<x, y>> lies inside the mask of task t and is true
TruePixelOf(t, p) ==
    /\ p[1] >= 0 /\ p[2] >= 0
    /\ p[2] < Len(t.mask.mask) /\ p[1] < Len(t.mask.mask[1])
    /\ t.mask.mask[p[2] + 1][p[1] + 1]

\* pixel p is marked in the visited grid of task t
VisitedIn(t, p) == t.visited[p[2] + 1][p[1] + 1]

\* every pixel of the grids of task t, as <<x, y>>
PixelsOfTask(t) ==
    {<<x, y>> : x \in 0..(GridWidth(t.mask.mask) - 1), y \in 0..(Len(t.mask.mask) - 1)}

\* the true pixels of task t not marked yet
Unmarked(t) == {p \in PixelsOfTask(t) : TruePixelOf(t, p) /\ ~VisitedIn(t, p)}

\* the steps task t can still take are at most Rank(t): a pixel still to scan
\* counts for more than any trace, and in a trace a pixel still to mark
\* counts for the four pushes it may cause
Rank(t) ==
    (pixel_count(t) - t.k) * (8 * pixel_count(t) + 2)
    + (IF t.pc = "scan" THEN 8 * pixel_count(t) + 1
       ELSE IF t.pc = "trace" THEN 4 * Cardinality(Unmarked(t)) + Len(t.stack)
       ELSE 0)

\* what holds of a call at every moment: the stack holds true pixels of the
\* mask only, no false pixel is marked, when the call has returned the
\* marked pixels are the true ones, and a call that has not returned is at
\* a step it can take
FillInvariant ==
    \A c \in DOMAIN tasks :
        /\ \A i \in 1..Len(tasks[c].stack) : TruePixelOf(tasks[c], tasks[c].stack[i])
        /\ \A p \in PixelsOfTask(tasks[c]) : VisitedIn(tasks[c], p) => TruePixelOf(tasks[c], p)
        /\ tasks[c].pc = "done" =>
               /\ tasks[c].visited = tasks[c].mask.mask
               /\ tasks[c].stack = <<>>
        /\ tasks[c].pc \in {"scan", "trace", "done"}

\* what holds of every step of a call: a mark is never taken back; a popped
\* pixel that is marked already is skipped, leaving the marks and the
\* boundary as they are; a popped pixel that is not marked is the one pixel
\* the step marks, and the pixels the step pushes are not marked; the empty
\* stack ends the trace; and the step lowers the rank of the call, a natural
\* number, so that no call takes steps for ever
FillStep ==
    \A c \in DOMAIN tasks :
        LET t == tasks[c]
            u == tasks'[c]
            top == t.stack[Len(t.stack)]
        IN  /\ \A p \in PixelsOfTask(t) : VisitedIn(t, p) => VisitedIn(u, p)
            /\ (t.pc = "trace" /\ t.stack # <<>> /\ VisitedIn(t, top)) =>
                   /\ u.visited = t.visited
                   /\ u.boundary = t.boundary
                   /\ u.stack = SubSeq(t.stack, 1, Len(t.stack) - 1)
            /\ (t.pc = "trace" /\ t.stack # <<>> /\ ~VisitedIn(t, top)) =>
                   /\ {p \in PixelsOfTask(t) : VisitedIn(u, p) /\ ~VisitedIn(t, p)} = {top}
                   /\ Len(u.boundary) = Len(t.boundary) + 1
                   /\ \A i \in Len(t.stack)..Len(u.stack) : ~VisitedIn(u, u.stack[i])
            /\ ~(t.pc = "trace" /\ t.stack # <<>>) => u.visited = t.visited
            /\ (t.pc = "trace" /\ t.stack = <<>>) => u.pc = "scan"
            /\ u # t => (Rank(u) >= 0 /\ Rank(u) < Rank(t))

\* C23: a call of mask_to_polygons returns on every rectangular mask: every
\* step lowers a rank that is a natural number, so the stack of
\* trace_polygon empties and the scan ends.  On the way each pixel is marked
\* at most once, a popped pixel that is marked is skipped, only true
\* unmarked pixels inside the mask are pushed, and at the return every true
\* pixel is marked and no false one.
C23_FloodFillTerminates == []FillInvariant /\ [][FillStep]_vars

\* the pixel on top of the stack was pushed twice and is marked by now: the
\* coming turn of the loop skips it
C23_Witness ==
    /\ tasks # <<>>
    /\ tasks[1].pc = "trace"
    /\ tasks[1].stack # <<>>
    /\ VisitedIn(tasks[1], tasks[1].stack[Len(tasks[1].stack)])

\* the samples of a call that pass the filter, from the arguments
FilteredSamples(salinity) == peak_points(salinity, args[3])

\* point p lies inside the axis-aligned box of the samples
InsideBoxOf(p, samples) ==
    /\ \E s \in Range(samples) : F64Le(s[1], p[1])
    /\ \E s \in Range(samples) : F64Le(p[1], s[1])
    /\ \E s \in Range(samples) : F64Le(s[2], p[2])
    /\ \E s \in Range(samples) : F64Le(p[2], s[2])

\* the weights of the samples are positive and their f32 sum is not zero
PositiveWeights(samples) ==
    /\ \A s \in Range(samples) : FGt(s[3], Zero)
    /\ F32Sum([i \in 1..Len(samples) |-> samples[i][3]]) # Zero

\* the centroid c of the samples lies inside their box, and is the sample
\* itself when there is one
CentroidOfSamples(c, samples) ==
    /\ InsideBoxOf(c, samples)
    /\ Len(samples) = 1 => c = <<samples[1][1], samples[1][2]>>

\* a call of calculate_intrusion_vector with threshold >= 0 has returned a
\* vector
VectorWithThreshold ==
    /\ op = "calculate_intrusion_vector"
    /\ FLe(Zero, args[3])
    /\ ret.ok /\ ret.value.some

\* C24: with threshold >= 0 every filtered sample has positive weight and the
\* total weight is not zero, and start_point and end_point each lie inside
\* the box of the filtered samples of their acquisition, a single filtered
\* sample being its own centroid.
C24_CentroidInsideBox ==
    VectorWithThreshold =>
        /\ PositiveWeights(FilteredSamples(args[1]))
        /\ PositiveWeights(FilteredSamples(args[2]))
        /\ CentroidOfSamples(ret.value.value.start_point, FilteredSamples(args[1]))
        /\ CentroidOfSamples(ret.value.value.end_point, FilteredSamples(args[2]))

\* the part of C24 about the weights alone
C24_PositiveWeights ==
    VectorWithThreshold =>
        /\ PositiveWeights(FilteredSamples(args[1]))
        /\ PositiveWeights(FilteredSamples(args[2]))

\* a call of detect_anomaly has returned a value
AnomalyReturned == op = "detect_anomaly"

\* a call of detect_anomaly has returned an alert of the given type
AlertReturned(alert_type) ==
    AnomalyReturned /\ ret.some /\ ret.value.alert_type = alert_type

\* the historical NDSI values of the call, and their mean
HistoricalNdsi == historical_ndsi_of(args[2])
MeanHistoricalNdsi == FDiv(FSum(HistoricalNdsi), FromInt(Len(HistoricalNdsi)))

\* the current NDSI is present and strictly above the historical mean
NdsiAboveMean ==
    /\ args[1].ndsi.some
    /\ HistoricalNdsi # <<>>
    /\ FGt(args[1].ndsi.value, MeanHistoricalNdsi)

\* C25: a SalinityIntrusion alert is returned only when the current NDSI is
\* strictly greater than the mean of the historical NDSI values, also when
\* that mean is negative.
C25_IntrusionMeansIncrease == AlertReturned("SalinityIntrusion") => NdsiAboveMean

\* the same over the histories whose mean NDSI is positive
C25_IncreaseOverPositiveMean ==
    (AlertReturned("SalinityIntrusion") /\ HistoricalNdsi # <<>>
        /\ FGt(MeanHistoricalNdsi, Zero)) => NdsiAboveMean

\* the detection of the current NDSI of the call is a Peak
NdsiPeak ==
    /\ args[1].ndsi.some
    /\ detect_peak_valley(new, args[1].ndsi.value, HistoricalNdsi, "Ndsi").detection_type = "Peak"

\* the detection of the current red-edge index of the call is a Valley
RedEdgeValley ==
    /\ args[1].red_edge_index.some
    /\ detect_peak_valley(new, args[1].red_edge_index.value,
                          historical_red_edge_of(args[2]), "RedEdge").detection_type = "Valley"

\* C26: detect_anomaly returns nothing or one alert; nothing when the
\* history is empty; CropStress only when the current NDSI is absent or not
\* a Peak; SalinityIntrusion whenever the NDSI detection is a Peak, a
\* red-edge Valley notwithstanding.
C26_NdsiPrecedence ==
    AnomalyReturned =>
        /\ ret = None \/ AlertReturned("SalinityIntrusion") \/ AlertReturned("CropStress")
        /\ args[2] = <<>> => ret = None
        /\ AlertReturned("CropStress") => ~NdsiPeak
        /\ (args[2] # <<>> /\ NdsiPeak) => AlertReturned("SalinityIntrusion")

\* the NDSI is a Peak and the red-edge index a Valley in one call, which
\* returns the salinity alert
C26_Witness == AlertReturned("SalinityIntrusion") /\ NdsiPeak /\ RedEdgeValley

\* the vertices of the ring are pairwise distinct, and at least 3
DistinctRing(ring) ==
    /\ Len(ring) >= 3
    /\ \A i, k \in 1..Len(ring) : i # k => ring[i] # ring[k]

\* the ring without its last vertex
OpenRing(ring) == SubSeq(ring, 1, Len(ring) - 1)

\* the ring with its first vertex repeated at the end
ClosedRing(ring) == Append(ring, ring[1])

\* point_in_polygon of the call's point on a polygon of the given ring
CastOn(ring) == point_in_polygon_traced(args[1], Polygon(<<ring>>))

\* the edge tests of the closed and of the open form of a ring agree: the
\* first test of the closed form, on its zero-length edge, does not toggle,
\* its last test is the wrap-around test of the open form, and the tests in
\* between are the same
SameEdgeTests(closed, open) ==
    /\ Len(closed.tests) = Len(open.tests) + 1
    /\ ~closed.tests[1].toggles
    /\ closed.tests[Len(closed.tests)] = open.tests[1]
    /\ \A k \in 2..Len(open.tests) : closed.tests[k] = open.tests[k]
    /\ closed.inside = open.inside

\* a call of point_in_polygon has returned, on a polygon with a ring
CastReturned == op = "point_in_polygon" /\ args[2].coordinates # <<>>

\* C27: point_in_polygon answers the same for a ring of at least 3 distinct
\* vertices and for that ring with its first vertex repeated at the end: the
\* wrap-around edge of the open ring is the closing edge of the closed one,
\* and the zero-length edge of the closed ring never toggles the result.
C27_ClosureIndifferent ==
    CastReturned =>
        /\ DistinctRing(args[2].coordinates[1]) =>
               SameEdgeTests(CastOn(ClosedRing(args[2].coordinates[1])), ret)
        /\ (/\ Len(args[2].coordinates[1]) >= 4
            /\ args[2].coordinates[1][1] = args[2].coordinates[1][Len(args[2].coordinates[1])]
            /\ DistinctRing(OpenRing(args[2].coordinates[1]))) =>
               SameEdgeTests(ret, CastOn(OpenRing(args[2].coordinates[1])))

\* the point is inside an open ring and the wrap-around edge is one of the
\* edges that toggled
C27_Witness ==
    /\ CastReturned
    /\ DistinctRing(args[2].coordinates[1])
    /\ ret.inside
    /\ ret.tests[1].toggles

\* the ring in the opposite orientation
ReversedRing(ring) == [i \in 1..Len(ring) |-> ring[Len(ring) + 1 - i]]

\* the ring in its other form: without its closing point when it is closed,
\* with it when it is open
OtherForm(ring) == IF ring[1] = ring[Len(ring)] THEN OpenRing(ring) ELSE ClosedRing(ring)

\* a call of the handler's calculate_area has returned
AreaReturned == op = "calculate_area"

\* the polygon of the call has no ring or an exterior ring of fewer than 3
\* points
NothingToMeasure == args[1].coordinates = <<>> \/ Len(args[1].coordinates[1]) < 3

\* the result of the call is the area the analyzer computes
AgreesWithAnalyzer == calculate_polygon_area(args[1]) = Ok(ret)

\* C28: the handler's calculate_area and VectorAnalyzer's
\* calculate_polygon_area return the same hectares for every polygon, 0 when
\* there is no ring or an exterior ring of fewer than 3 points, and the same
\* for the ring reversed and for its closed and its open form.
C28_AreasAgree ==
    AreaReturned =>
        /\ AgreesWithAnalyzer
        /\ NothingToMeasure => ret = Zero
        /\ ~NothingToMeasure =>
               /\ calculate_area(Polygon(<<ReversedRing(args[1].coordinates[1])>>)) = ret
               /\ Len(OtherForm(args[1].coordinates[1])) >= 3 =>
                      calculate_area(Polygon(<<OtherForm(args[1].coordinates[1])>>)) = ret

\* the two areas agree on the polygons with nothing to measure
C28_ZeroAreas == (AreaReturned /\ NothingToMeasure) => (ret = Zero /\ AgreesWithAnalyzer)

\* the callers whose token request is in flight
InFlight == {c \in DOMAIN tasks : tasks[c].pc = "sending"}

\* the cache holds a token that is valid for more than 5 more minutes
CachedTokenValid ==
    shared.access_token.some /\ shared.access_token.value.expires_at - shared.now > 5

\* at most one token request is in flight, sent by the holder of the write
\* guard
SingleFlight ==
    /\ Cardinality(InFlight) <= 1
    /\ \A c \in InFlight : shared.writer = c
    /\ shared.writer # 0 => shared.writer \in InFlight

\* what holds of every step of a caller: while the cached token is valid a
\* caller that acts returns it, sends nothing and leaves the cache alone; a
\* request is sent only when the cached token is not valid and no other
\* request is in flight; a caller that returns an error leaves the cached
\* token as it was
TokenStep ==
    \A c \in DOMAIN tasks :
        LET t == tasks[c]
            u == tasks'[c]
        IN  /\ (u # t /\ t.pc \in {"read", "write"} /\ CachedTokenValid) =>
                   /\ u.pc = "done"
                   /\ u.ret = Ok(shared.access_token.value.token)
                   /\ u.sent = 0
                   /\ shared' = shared
            /\ (u.pc = "sending" /\ t.pc # "sending") =>
                   ~CachedTokenValid /\ InFlight = {}
            /\ (u.pc = "done" /\ t.pc # "done" /\ ~u.ret.ok) =>
                   shared'.access_token = shared.access_token

\* C29: ensure_token is single-flight: at most one token request is in
\* flight at any time; once a request has stored a token that is valid for
\* more than 5 more minutes, every waiting caller returns that cached token
\* without a request of its own; a failed request leaves the cached token
\* unchanged.
C29_SingleFlight == []SingleFlight /\ [][TokenStep]_vars

\* a caller found no valid token under the read guard, waited for the write
\* guard while another caller's request was in flight, and returned the
\* token that request stored, having sent nothing
C29_Witness ==
    \E c, w \in DOMAIN tasks :
        /\ tasks[c].pc = "done" /\ tasks[c].sent = 1 /\ tasks[c].ret.ok
        /\ tasks[w].pc = "done" /\ tasks[w].checks = 2 /\ tasks[w].sent = 0
        /\ tasks[w].ret = tasks[c].ret

(***************************************************************************)
(* trigger_analysis, modules/monitoring: controller.rs, service.rs,        *)
(* repository.rs.  Requests for one farm run concurrently; shared is the   *)
(* database: the rows of salinity_logs in the order of their insertion and *)
(* the rows of alerts.  A row of salinity_logs is its id, its ndsi_value    *)
(* and its recorded_at; NOW() gives every insertion a later instant than   *)
(* the one before, and all rows lie within the 30 days that are asked for. *)
(* A request is modelled up to the return of detect_salinity_anomaly.      *)
(***************************************************************************)
\* ANOMALY_THRESHOLD_MULTIPLIER and MOVING_AVERAGE_WINDOW
ANOMALY_THRESHOLD_MULTIPLIER == FromInt(2)
MOVING_AVERAGE_WINDOW == 7

\* the most concurrent requests
MaxRequests == 3

\* ndsi_value of a request: the share of water pixels
NdsiValues == {Zero, One}

\* the rows of a farm with a week of quiet measurements
QuietWeek ==
    [i \in 1..MOVING_AVERAGE_WINDOW |-> [id |-> i, ndsi_value |-> Zero, recorded_at |-> i]]

\* repository::save_salinity_log: INSERT ... VALUES (.., NOW()) RETURNING id
save_salinity_log(logs, ndsi_value) ==
    Append(logs, [id |-> Len(logs) + 1, ndsi_value |-> ndsi_value,
                  recorded_at |-> Len(logs) + 1])

\* repository::get_ndsi_history: the rows ORDER BY recorded_at DESC
get_ndsi_history(logs) ==
    [i \in 1..Len(logs) |->
        CHOOSE row \in Range(logs) :
            Cardinality({r \in Range(logs) : r.recorded_at > row.recorded_at}) = i - 1]

\* the mean avg of the values and the root of the variance around it
stats_around(values, avg) ==
    <<avg,
      F64Sqrt(F64Div(F64Sum([i \in 1..Len(values) |->
                                F64Mul(F64Sub(values[i], avg), F64Sub(values[i], avg))]),
                     FromInt(Len(values))))>>

\* service.rs, calculate_stats
calculate_stats(values) ==
    IF values = <<>> THEN <<Zero, Zero>>
    ELSE stats_around(values, F64Div(F64Sum(values), FromInt(Len(values))))

\* the alert for current_ndsi above the threshold
alert_of(current_ndsi, threshold, std_dev) ==
    [severity |-> IF F64Gt(current_ndsi, F64Add(threshold, std_dev)) THEN "Critical"
                  ELSE IF F64Gt(current_ndsi, F64Add(threshold, F64Mul(std_dev, Q(1, 2))))
                  THEN "High"
                  ELSE "Medium",
     current_ndsi |-> current_ndsi,
     threshold |-> threshold]

\* detect_salinity_anomaly after calculate_stats: nothing when current_ndsi
\* is not above moving_avg + 2 * std_dev
anomaly_of(current_ndsi, stats) ==
    IF F64Le(current_ndsi, F64Add(stats[1], F64Mul(ANOMALY_THRESHOLD_MULTIPLIER, stats[2])))
    THEN None
    ELSE Some(alert_of(current_ndsi,
                       F64Add(stats[1], F64Mul(ANOMALY_THRESHOLD_MULTIPLIER, stats[2])),
                       stats[2]))

\* service::detect_salinity_anomaly on the history it has read
detect_salinity_anomaly(history) ==
    IF Len(history) <= MOVING_AVERAGE_WINDOW THEN None
    ELSE anomaly_of(history[1].ndsi_value,
                    calculate_stats([i \in 1..MOVING_AVERAGE_WINDOW |->
                                        history[i + 1].ndsi_value]))

\* the request after detect_salinity_anomaly: what it compared, the window
\* it averaged, and the alert
detected(t, history, alert) ==
    [t EXCEPT !.pc = "done", !.history = history, !.alert = alert]

InitMonitoring ==
    /\ analyzer = new
    /\ op = "idle"
    /\ args = <<>>
    /\ ret = <<>>
    /\ tasks = <<>>
    /\ shared = [salinity_logs |-> QuietWeek, alerts |-> <<>>]

\* trigger_analysis up to `let ndsi_value = water_coverage_percent / 100.0`
TriggerAnalysis ==
    /\ Len(tasks) < MaxRequests
    /\ \E ndsi_value \in NdsiValues :
          tasks' = Append(tasks, [pc |-> "save", ndsi_value |-> ndsi_value, saved |-> 0,
                                  history |-> <<>>, alert |-> None])
    /\ UNCHANGED <<analyzer, op, args, ret, shared>>

\* service::save_ndsi_measurement(farm_id, ndsi_value, "ai_analysis", db)
SaveNdsiMeasurement ==
    /\ \E c \in DOMAIN tasks :
          /\ tasks[c].pc = "save"
          /\ shared' = [shared EXCEPT
                           !.salinity_logs = save_salinity_log(shared.salinity_logs,
                                                               tasks[c].ndsi_value)]
          /\ tasks' = [tasks EXCEPT ![c] =
                          [tasks[c] EXCEPT !.pc = "detect",
                                           !.saved = Len(shared.salinity_logs) + 1]]
    /\ UNCHANGED <<analyzer, op, args, ret>>

\* the alert of request c, with the alerts table after save_alert
DetectWith(c, history, alert) ==
    /\ tasks' = [tasks EXCEPT ![c] = detected(tasks[c], history, alert)]
    /\ shared' = [shared EXCEPT
                     !.alerts = IF alert.some THEN Append(shared.alerts, alert.value)
                                ELSE shared.alerts]

\* service::detect_salinity_anomaly(farm_id, db): get_ndsi_history, the
\* comparison, save_alert
DetectSalinityAnomaly ==
    /\ \E c \in DOMAIN tasks :
          /\ tasks[c].pc = "detect"
          /\ \E history \in {get_ndsi_history(shared.salinity_logs)} :
                DetectWith(c, history, detect_salinity_anomaly(history))
    /\ UNCHANGED <<analyzer, op, args, ret>>

NextMonitoring ==
    \/ TriggerAnalysis
    \/ SaveNdsiMeasurement
    \/ DetectSalinityAnomaly

SpecMonitoring == InitMonitoring /\ [][NextMonitoring]_vars

\* the row that request t saved
SavedRow(t) == CHOOSE row \in Range(shared.salinity_logs) : row.id = t.saved

\* request t compared its own measurement: history[0] is the row it saved,
\* and the 7 rows averaged are the 7 inserted just before that row
ComparedOwnMeasurement(t) ==
    /\ t.history[1].id = t.saved
    /\ \A i \in 1..MOVING_AVERAGE_WINDOW : t.history[i + 1].id = t.saved - i

\* C30: in every request the value compared against the threshold,
\* history[0], is the measurement that request saved, and the 7 values
\* averaged are the measurements preceding it, however concurrent requests
\* for the farm interleave.
C30_ComparesOwnMeasurement ==
    \A c \in DOMAIN tasks : tasks[c].pc = "done" => ComparedOwnMeasurement(tasks[c])

\* the same for a request during which no other request saved a measurement
C30_UndisturbedRequest ==
    \A c \in DOMAIN tasks :
        (tasks[c].pc = "done" /\ Len(tasks[c].history) = tasks[c].saved) =>
            ComparedOwnMeasurement(tasks[c])

\* a request that saved a quiet value raised an alert from the measurement
\* of another request
C30_ForeignAlert ==
    \E c \in DOMAIN tasks :
        /\ tasks[c].pc = "done"
        /\ tasks[c].ndsi_value = Zero
        /\ tasks[c].alert.some

============================================================================
